---- MODULE Spec2Model ----
(***************************************************************************)
(* Model of the scp-wiki-article-builder engine: the build pipeline        *)
(* (build / buildWithNoErrorHandling), the service lifecycle and the       *)
(* ImageService registry.                                                  *)
(*                                                                         *)
(* Strings that the code takes apart (paths, file names) are sequences of  *)
(* one-character strings, so that path.basename, path.extname and the      *)
(* `_N` suffix are computed as the code computes them.                     *)
(***************************************************************************)
EXTENDS Integers, Sequences, FiniteSets, TLC

\* ------------------------------------------------------------------ bounds

\* Number of registerImage calls issued by helpers during one render.
MaxCalls == 3

\* Number of asynchronous helpers that may be in flight at the same time.
MaxPending == 2

\* The deepest nesting of __file blocks a render reaches.
MaxDepth == 3

\* The largest number of services in a services object.
MaxServices == 3

\* The largest number of launches of one configuration.
MaxLaunches == 2

\* The largest number of builds rendering with one services object.
MaxBuilds == 2

\* ------------------------------------------------------- JavaScript values

\* The value of a property that was never assigned; a template literal
\* prints it as the text "undefined".
Undefined == "undefined"

\* null, as passed for existingServices by default.
Null == [null |-> TRUE]

\* { ...a, ...b }: the keys of both, b's value where both have the key.
Spread(a, b) ==
    [k \in (DOMAIN a) \cup (DOMAIN b) |-> IF k \in DOMAIN b THEN b[k] ELSE a[k]]

\* ------------------------------------------------------------- path (posix)

\* Index of the last occurrence of character c in s, 0 when there is none.
RECURSIVE LastIndexOf(_, _)
LastIndexOf(s, c) ==
    IF s = <<>> THEN 0
    ELSE IF s[Len(s)] = c THEN Len(s)
    ELSE LastIndexOf(SubSeq(s, 1, Len(s) - 1), c)

\* s without its trailing "/" characters.
RECURSIVE StripTrailingSlashes(_)
StripTrailingSlashes(s) ==
    IF s # <<>> /\ s[Len(s)] = "/"
    THEN StripTrailingSlashes(SubSeq(s, 1, Len(s) - 1))
    ELSE s

\* path.basename(p): the last portion of the path.
Basename(p) ==
    LET q == StripTrailingSlashes(p)
        k == LastIndexOf(q, "/")
    IN  SubSeq(q, k + 1, Len(q))

\* path.extname(p): from the last "." of the last portion to its end; empty
\* when there is no "." or when the only "." is the portion's first character.
ExtName(p) ==
    LET b == Basename(p)
        k == LastIndexOf(b, ".")
    IN  IF k <= 1 \/ b = <<".", ".">> THEN <<>> ELSE SubSeq(b, k, Len(b))

\* path.basename(p, ext): the last portion without the trailing ext.
BasenameExt(p, ext) ==
    LET b == Basename(p)
        n == Len(b) - Len(ext)
    IN  IF ext # <<>> /\ n >= 1 /\ SubSeq(b, n + 1, Len(b)) = ext
        THEN SubSeq(b, 1, n)
        ELSE b

\* path.resolve(dir, name) for an absolute, normalised directory and a single
\* file name (no "/", not "." or ".."): the name inside the directory.
Resolve(dir, name) == dir \o <<"/">> \o name

\* The decimal digits of a natural number, as `${n}` prints them.
DigitChar(d) == <<"0", "1", "2", "3", "4", "5", "6", "7", "8", "9">>[d + 1]

RECURSIVE Decimal(_)
Decimal(n) ==
    IF n < 10 THEN <<DigitChar(n)>>
    ELSE Decimal(n \div 10) \o <<DigitChar(n % 10)>>

\* ------------------------------------------------------------------ Service

\* new Service(serviceName, options).  The constructor's first statement is
\* the comma expression `this,serviceName = serviceName`, which evaluates
\* `this` and then assigns the parameter to itself: the serviceName property
\* of the object is never set.
ServiceConstructor(serviceName, options) ==
    [serviceName |-> Undefined, options |-> options]

\* Service.error(message): the RuntimeException it throws.  The message text
\* is `Error in service "${this.serviceName}": ${message}`.
ServiceError(self, subject) ==
    [kind    |-> "RuntimeException",
     service |-> self.serviceName,
     subject |-> subject]

\* ------------------------------------------------------------- ImageService

\* new ImageService(options): super(ImageService.name, options), images = [].
ImageServiceConstructor(options) ==
    Spread(ServiceConstructor("ImageService", options), [images |-> <<>>])

\* createOutputPath with the suffix appended after the extension.
CreateOutputPathSuffixLast(outputDir, inputPath, n) ==
    LET suffix    == IF n > 0 THEN <<"_">> \o Decimal(n) ELSE <<>>
        extension == ExtName(inputPath)
        filename  == BasenameExt(inputPath, extension) \o extension \o suffix
    IN  Resolve(outputDir, filename)

\* createOutputPath(n) inside _findUniqueOutputPath.
CreateOutputPath(outputDir, inputPath, n) ==
    LET suffix    == IF n > 0 THEN <<"_">> \o Decimal(n) ELSE <<>>
        extension == ExtName(inputPath)
        filename  == BasenameExt(inputPath, extension) \o suffix \o extension
    IN  Resolve(outputDir, filename)

\* The uniqueness test comparing the candidate with the wrong property.
OutputClaimedByInput(images, outputPath) ==
    \E i \in 1..Len(images) : images[i].inputPath = outputPath

\* this.images.filter(image => image.outputPath === outputPath).length > 0
OutputClaimed(images, outputPath) ==
    \E i \in 1..Len(images) : images[i].outputPath = outputPath

\* The loop of _findUniqueOutputPath, entered with candidate number i.
RECURSIVE FindFrom(_, _, _, _)
FindFrom(images, outputDir, inputPath, i) ==
    IF OutputClaimed(images, CreateOutputPath(outputDir, inputPath, i))
    THEN FindFrom(images, outputDir, inputPath, i + 1)
    ELSE CreateOutputPath(outputDir, inputPath, i)

\* ImageService._findUniqueOutputPath(inputPath)
FindUniqueOutputPath(self, inputPath) ==
    FindFrom(self.images, self.options.output.dir, inputPath, 0)

\* The lookup comparing the input with the wrong property.
AlreadyRegisteredByOutput(images, inputPath) ==
    {i \in 1..Len(images) : images[i].outputPath = inputPath}

\* this.images.filter(image => image.inputPath === imageAbsolutePath)[0]
AlreadyRegistered(images, inputPath) ==
    {i \in 1..Len(images) : images[i].inputPath = inputPath}

\* A registry to which a new pair is added in front.
RegisterImagesInFront(self, inputPath) ==
    IF AlreadyRegistered(self.images, inputPath) = {}
    THEN << [inputPath  |-> inputPath,
             outputPath |-> FindUniqueOutputPath(self, inputPath)] >>
            \o self.images
    ELSE self.images

\* The registry after registerImage(imageAbsolutePath).
RegisterImages(self, inputPath) ==
    IF AlreadyRegistered(self.images, inputPath) = {}
    THEN Append(self.images,
                [inputPath  |-> inputPath,
                 outputPath |-> FindUniqueOutputPath(self, inputPath)])
    ELSE self.images

\* The outputPath local of registerImage(imageAbsolutePath).
RegisterOutputPath(self, inputPath) ==
    LET found == AlreadyRegistered(self.images, inputPath)
    IN  IF found = {}
        THEN FindUniqueOutputPath(self, inputPath)
        ELSE self.images[CHOOSE i \in found : \A j \in found : i <= j].outputPath

\* A reference built from the file name of the input.
RegisterReturnInputName(self, inputPath) ==
    <<"http://">> \o self.options.wikiName
    \o <<".wikidot.com/local--files/">> \o self.options.pageName
    \o <<"/">> \o Basename(inputPath)

\* The string registerImage(imageAbsolutePath) returns.
RegisterReturn(self, inputPath) ==
    LET outputFilename == Basename(RegisterOutputPath(self, inputPath))
    IN  <<"http://">> \o self.options.wikiName
        \o <<".wikidot.com/local--files/">> \o self.options.pageName
        \o <<"/">> \o outputFilename

\* ------------------------------------------------------------- environment

\* The image paths helpers hand to registerImage: three files of the same
\* name in different directories, a file whose own name already looks
\* suffixed, and a file without an extension.
InputPaths ==
    { <<"/", "a", "/", "l", ".", "p">>,
      <<"/", "b", "/", "l", ".", "p">>,
      <<"/", "c", "/", "l", ".", "p">>,
      <<"/", "a", "/", "l", "_", "1", ".", "p">>,
      <<"/", "a", "/", "l">> }

\* The sub-project names in the order the subProjects objects list them,
\* which is the order for...in visits them in.
KeyOrder == <<"sub", "x", "config", "strings", "services", "bad">>

\* The first of the given names in that order.
FirstKey(names) ==
    KeyOrder[CHOOSE i \in 1..Len(KeyOrder) :
                /\ KeyOrder[i] \in names
                /\ \A j \in 1..(i - 1) : KeyOrder[j] \notin names]

\* The subProjects mappings of the configurations built.
SubProjectMaps ==
    { <<>>,
      [sub |-> "subA", x |-> "subB"],
      [config |-> "subA", strings |-> "subB", services |-> "subA"],
      [bad |-> "subBad"] }

\* A build configuration (BuildOptions) with the given subProjects mapping.
Config(subProjects) ==
    [wikiName    |-> <<"w">>,
     pageName    |-> <<"p">>,
     entry       |-> <<"/", "e">>,
     partialsDir |-> <<"/", "d">>,
     stringsDir  |-> <<"/", "s">>,
     output      |-> [dir |-> <<"/", "o">>, filename |-> <<"f">>],
     locale      |-> "en",
     components  |-> <<>>,
     subProjects |-> subProjects,
     data        |-> [x |-> 2]]

\* An object without some of its properties.
Without(obj, keys) == [k \in (DOMAIN obj) \ keys |-> obj[k]]

\* A configuration whose output holds path templates.
Templated(config) ==
    Spread(config,
           [output |-> [dir      |-> <<"/", "{{x}}">>,
                        filename |-> <<"{{@config.pageName}}", ".", "{{y}}">>]])

\* The default exports of the config modules, by config path.  main, mainY
\* and subBad hold path templates in output; the data of mainY lacks the y
\* its filename names; subBad lacks two required fields.
ConfigModules ==
    [ main   |-> Templated(Spread(Config(<<>>), [data |-> [x |-> 2, y |-> 5]])),
      mainY  |-> Templated(Config(<<>>)),
      subA   |-> Spread(Config(<<>>), [data |-> [x |-> 1]]),
      subB   |-> Spread(Config(<<>>), [data |-> [y |-> 3]]),
      subBad |-> Without(Templated(Config(<<>>)), {"locale", "data"}) ]

\* The config paths the command line may name.
MainPaths == {"main", "mainY", "subBad"}

\* How the import of a config module can fail: the module is not found, it
\* does not parse, or its file type is not supported.
ImportFailures ==
    {"ERR_MODULE_NOT_FOUND", "SyntaxError", "ERR_UNKNOWN_FILE_EXTENSION"}

\* What import(configUrl) gives: the module, or an error with a code.
Import(configPath, code) ==
    [code |-> code, default |-> ConfigModules[configPath]]

\* The overrideOptions arguments of the builds: none, and an override of a
\* scalar, of data and of output, the latter holding a path template.
Overrides ==
    { <<>>,
      [pageName |-> <<"q">>,
       data     |-> [x |-> 7],
       output   |-> [dir |-> <<"/", "{{x}}">>, filename |-> <<"f">>]] }

\* The service map a caller may pass as existingServices.
SuppliedServices == [id |-> "supplied"]

\* The calls of build and buildWithNoErrorHandling: the options, the
\* overrideOptions and the existingServices arguments.  Services are
\* supplied to builds without sub-projects and to one whose sub-project
\* fails validation; the last two calls pass options that lack required
\* fields.
Cases ==
    {[o |-> Config(m), v |-> <<>>, s |-> Null] : m \in SubProjectMaps}
       \cup {[o |-> Config(m), v |-> <<>>, s |-> SuppliedServices] :
                 m \in {<<>>, [bad |-> "subBad"]}}
       \cup {[o |-> Config(<<>>), v |-> v, s |-> Null] : v \in Overrides}
       \cup {[o |-> Without(Config(<<>>), {"wikiName"}), v |-> <<>>, s |-> Null],
             [o |-> Without(Config(<<>>), {"stringsDir", "components", "data"}),
              v |-> [output |-> [dir |-> <<"/", "o">>]], s |-> Null]}

\* The texts a render may produce.
Texts == {[text |-> ""], [text |-> "t"]}

\* The content of <stringsDir>/<locale>.json.
StringsFile == [greeting |-> "Hi"]

\* An exception that is not raised through Service.error.
Exception(kind, subject) ==
    [kind |-> kind, service |-> "", subject |-> subject]

\* A ValidationException carrying type check errors.
ValidationException(violations) ==
    [kind |-> "ValidationException", service |-> "", subject |-> "options",
     violations |-> violations]

\* --------------------------------------------------------------- validation

\* buildOptionsSpec: what each option must be.  A plain type name is written
\* [type |-> name]; the function giving the shape of output is written
\* [shape |-> ...].
BuildOptionsSpecLocaleOptional ==
    [wikiName    |-> [type |-> "string"],
     pageName    |-> [type |-> "string"],
     entry       |-> [type |-> "string"],
     partialsDir |-> [type |-> "string"],
     stringsDir  |-> [type |-> "string"],
     output      |-> [shape |-> [dir      |-> [type |-> "string"],
                                 filename |-> [type |-> "string"]]],
     locale      |-> [type |-> "string", optional |-> TRUE],
     components  |-> [type |-> "components"],
     subProjects |-> [type |-> "object", optional |-> TRUE],
     data        |-> [type |-> "object"]]

BuildOptionsSpec ==
    [wikiName    |-> [type |-> "string"],
     pageName    |-> [type |-> "string"],
     entry       |-> [type |-> "string"],
     partialsDir |-> [type |-> "string"],
     stringsDir  |-> [type |-> "string"],
     output      |-> [shape |-> [dir      |-> [type |-> "string"],
                                 filename |-> [type |-> "string"]]],
     locale      |-> [type |-> "string"],
     components  |-> [type |-> "components"],
     subProjects |-> [type |-> "object", optional |-> TRUE],
     data        |-> [type |-> "object"]]

\* The keys of a params spec that params must have.
RequiredKeys(spec) ==
    {k \in DOMAIN spec :
        ~ ("optional" \in DOMAIN spec[k] /\ spec[k].optional)}

\* The keys of a params spec whose entry gives a nested shape.
ShapeKeys(spec) == {k \in DOMAIN spec : "shape" \in DOMAIN spec[k]}

\* checkNamedParams(spec, params): the errors it collects, one for each
\* required key that params lacks and, for a nested shape that is present,
\* one for each required key of the shape that it lacks.  Each error is the
\* path of the missing field.  A ValidationException carrying all of them
\* is thrown when there is any.
CheckNamedParams(spec, params) ==
    {<<k>> : k \in RequiredKeys(spec) \ DOMAIN params}
       \cup UNION {{<<k, f>> : f \in RequiredKeys(spec[k].shape)
                                        \ DOMAIN params[k]} :
                      k \in ShapeKeys(spec) \cap DOMAIN params}

\* ----------------------------------------------------------- path templates

\* The expressions a path template may hold that name a property of the
\* context, with the property each one names.
DataExpressions == [e \in {"{{x}}", "{{y}}"} |-> IF e = "{{x}}" THEN "x" ELSE "y"]

\* The expression that reads the page name through the config data variable.
ConfigExpression == "{{@config.pageName}}"

\* In strict mode an expression naming a property the context lacks throws.
TemplateThrows(context, pathTemplate) ==
    \E i \in 1..Len(pathTemplate) :
        /\ pathTemplate[i] \in DOMAIN DataExpressions
        /\ DataExpressions[pathTemplate[i]] \notin DOMAIN context

\* template(options.data, { data: { config: options } }): every expression
\* replaced by its value, every other character kept.
RECURSIVE Interpolated(_, _)
Interpolated(opts, pathTemplate) ==
    IF pathTemplate = << >> THEN << >>
    ELSE LET h == Head(pathTemplate)
         IN  (IF h \in DOMAIN DataExpressions
                 THEN Decimal(opts.data[DataExpressions[h]])
              ELSE IF h = ConfigExpression THEN opts.pageName
              ELSE << h >>)
             \o Interpolated(opts, Tail(pathTemplate))

\* An interpolation that returns the template as it stands.
InterpolatePathTemplateVerbatim(opts, pathTemplate) == pathTemplate

\* interpolatePathTemplate(options, pathTemplate)
InterpolatePathTemplate(opts, pathTemplate) == Interpolated(opts, pathTemplate)

\* ---------------------------------------------------------- loadBuildConfig

\* The error the import itself threw.
ImportError(code) == [kind |-> "Error", service |-> "", subject |-> code]

\* loadBuildConfig in which an import error other than a missing module is
\* caught and dropped, so that the null buildOptions reaches validation.
LoadBuildConfigCatchAll(configPath, imported) ==
    IF imported.code = "ERR_MODULE_NOT_FOUND"
    THEN [ok |-> FALSE, error |-> Exception("RuntimeException", configPath)]
    ELSE IF imported.code # "ok"
    THEN [ok |-> FALSE,
          error |-> ValidationException(CheckNamedParams(BuildOptionsSpec, << >>))]
    ELSE LET buildOptions == imported.default
             violations   == CheckNamedParams(BuildOptionsSpec, buildOptions)
         IN  IF violations # {}
             THEN [ok |-> FALSE, error |-> ValidationException(violations)]
             ELSE IF \/ TemplateThrows(buildOptions.data, buildOptions.output.dir)
                     \/ TemplateThrows(buildOptions.data,
                                       buildOptions.output.filename)
             THEN [ok |-> FALSE, error |-> Exception("Error", "template")]
             ELSE [ok |-> TRUE,
                   value |->
                     Spread(buildOptions,
                            [output |->
                               [dir |-> InterpolatePathTemplate(
                                            buildOptions, buildOptions.output.dir),
                                filename |-> InterpolatePathTemplate(
                                            buildOptions,
                                            buildOptions.output.filename)]])]

\* loadBuildConfig(configPath), given what the import of the module gives.
\* The RuntimeException it builds names the URL of configPath.
LoadBuildConfig(configPath, imported) ==
    IF imported.code = "ERR_MODULE_NOT_FOUND"
    THEN [ok |-> FALSE, error |-> Exception("RuntimeException", configPath)]
    ELSE IF imported.code # "ok"
    THEN [ok |-> FALSE, error |-> ImportError(imported.code)]
    ELSE LET buildOptions == imported.default
             violations   == CheckNamedParams(BuildOptionsSpec, buildOptions)
         IN  IF violations # {}
             THEN [ok |-> FALSE, error |-> ValidationException(violations)]
             ELSE IF \/ TemplateThrows(buildOptions.data, buildOptions.output.dir)
                     \/ TemplateThrows(buildOptions.data,
                                       buildOptions.output.filename)
             THEN [ok |-> FALSE, error |-> Exception("Error", "template")]
             ELSE [ok |-> TRUE,
                   value |->
                     Spread(buildOptions,
                            [output |->
                               [dir |-> InterpolatePathTemplate(
                                            buildOptions, buildOptions.output.dir),
                                filename |-> InterpolatePathTemplate(
                                            buildOptions,
                                            buildOptions.output.filename)]])]

\* -------------------------------------------------------------------- state

VARIABLES
    entryPoint,        \* the function the caller invoked
    optionsArg,        \* its options argument
    overrideOptions,   \* its overrideOptions argument
    existingServices,  \* its existingServices argument
    pc,                \* position inside build / buildWithNoErrorHandling
    options,           \* the merged options (local of buildWithNoErrorHandling)
    subProjectsData,   \* local of loadSubProjectsData
    subTodo,           \* sub-project names loadSubProjectsData has yet to load
    strings,           \* the loaded localized strings
    services,          \* the service map in use
    svc,               \* the ImageService object of that map
    ctx,               \* the data frame handed to the template
    resolved,          \* what the name x resolves to in the entry template
    evaluating,        \* the template's evaluation pass is running
    pending,           \* asynchronous helpers in flight
    calls,             \* registerImage calls made so far
    generatedText,     \* local of buildWithNoErrorHandling
    buildText,         \* local generatedText of build
    copyIdx,           \* position of afterBuild's loop over this.images
    copies,            \* fs.copyFile calls made, with their outcome
    err,               \* the exception being thrown
    printed,           \* the exceptions handed to printException
    outcome,           \* what the caller got: a returned value or an exception
    firstRef,          \* history: the first reference returned for each input
    lastCall,          \* history: the last registerImage call
    trace,             \* history: the pipeline events in order
    givenOptions,      \* history: the options object as the caller passed it
    lastLoad,          \* history: the last loadBuildConfig call and its result
    fsLog,             \* history: the paths handed to fs.mkdir and fs.open
    cwd,               \* process.cwd()
    fileOptions,       \* the entry and partialsDir options of a build
    partials,          \* h.partials: the path each registered partial is wrapped with
    wrappedEntry,      \* the path the entry content is wrapped with
    heap,              \* the data frames the evaluation has created
    dataStack,         \* the data frame of each block being evaluated
    blocks,            \* history: the __file blocks being evaluated
    seen,              \* history: what the last helper called saw
    lastLeft,          \* history: the last __file block that ended
    filePc,            \* position of the build that renders the files
    hookServices,      \* hooks: the keys of the services object, in order
    hookExisting,      \* hooks: whether existingServices was given
    hookPc,            \* hooks: position in lines 171-190
    hookIdx,           \* hooks: position of the for...in loop
    running,           \* hooks: the hook that was called and not settled
    started,           \* history: every hook called, in order
    effects,           \* the side effects of the hooks that completed
    hookText,          \* hooks: generatedText
    hookErr,           \* hooks: the error in flight
    hookOut,           \* hooks: what the caller observes
    loadPc,            \* content loading: position
    dirTodo,           \* content loading: the dirents not yet iterated
    partialFilePath,   \* content loading: the partial file being loaded
    registered,        \* content loading: the partials registered
    entryFileContent,  \* content loading: the content of the entry file
    fsCalls,           \* history: the filesystem operations called
    loadErr,           \* content loading: the error in flight
    loadOut,           \* content loading: what the caller observes
    stringsConfig,     \* strings: configFilePath, stringsDir and locale
    launchCwd,         \* strings: process.cwd() of the running launch
    launched,          \* history: per launch, its cwd and what it required
    stringsOut,        \* strings: what loadStrings returned or threw
    sharedSvc,         \* shared: the ImageService of existingServices
    sharedCalls,       \* shared: per build, its registerImage calls so far
    registeredBy       \* history: per registry entry, the build that added it

vars ==
    << entryPoint, optionsArg, overrideOptions, existingServices, pc, options,
       subProjectsData, subTodo, strings, services, svc, ctx, resolved,
       evaluating, pending, calls, generatedText, buildText, copyIdx, copies,
       err, printed, outcome, firstRef, lastCall, trace, givenOptions,
       lastLoad, fsLog, cwd, fileOptions, partials, wrappedEntry, heap,
       dataStack, blocks, seen, lastLeft, filePc, hookServices, hookExisting,
       hookPc, hookIdx, running, started, effects, hookText, hookErr, hookOut,
       loadPc, dirTodo, partialFilePath, registered, entryFileContent,
       fsCalls, loadErr, loadOut, stringsConfig, launchCwd, launched,
       stringsOut, sharedSvc, sharedCalls, registeredBy >>

args     == << entryPoint, overrideOptions, existingServices, givenOptions >>
mainVars == << lastLoad, fsLog >>
fileVars == << cwd, fileOptions, partials, wrappedEntry, heap, dataStack,
               blocks, seen, lastLeft, filePc >>
hookVars == << hookServices, hookExisting, hookPc, hookIdx, running, started,
               effects, hookText, hookErr, hookOut >>
buildVars ==
    << entryPoint, optionsArg, overrideOptions, existingServices, pc, options,
       subProjectsData, subTodo, strings, services, svc, ctx, resolved,
       evaluating, pending, calls, generatedText, buildText, copyIdx, copies,
       err, printed, outcome, firstRef, lastCall, trace, givenOptions,
       lastLoad, fsLog >>
contentVars == << loadPc, dirTodo, partialFilePath, registered,
                  entryFileContent, fsCalls, loadErr, loadOut >>
stringsVars == << stringsConfig, launchCwd, launched, stringsOut >>
sharedVars == << sharedSvc, sharedCalls, registeredBy >>
outsideBuild == << fileVars, hookVars, contentVars, stringsVars, sharedVars >>
outsideFiles == << buildVars, hookVars, contentVars, stringsVars, sharedVars >>
outsideHooks == << buildVars, fileVars, contentVars, stringsVars, sharedVars >>
outsideContent == << buildVars, hookVars, stringsVars, sharedVars, partials,
                     wrappedEntry, heap, dataStack, blocks, seen, lastLeft,
                     filePc >>
outsideStrings == << buildVars, fileVars, hookVars, contentVars, sharedVars >>
outsideShared == << buildVars, fileVars, hookVars, contentVars, stringsVars >>
loadVars == << options, subProjectsData, subTodo, strings >>
svcVars  == << services, svc >>
regVars  == << svc, calls, firstRef, lastCall >>
rendVars == << ctx, resolved, evaluating, pending, generatedText >>
copyVars == << copyIdx, copies >>
endVars  == << buildText, err, printed, outcome >>

\* No file is being rendered.
FilesIdle ==
    /\ cwd = << >>
    /\ fileOptions = Null
    /\ partials = << >>
    /\ wrappedEntry = << >>
    /\ heap = << >>
    /\ dataStack = << >>
    /\ blocks = << >>
    /\ seen = Null
    /\ lastLeft = Null
    /\ filePc = "idle"

FramesIdle ==
    /\ partials = << >>
    /\ wrappedEntry = << >>
    /\ heap = << >>
    /\ dataStack = << >>
    /\ blocks = << >>
    /\ seen = Null
    /\ lastLeft = Null
    /\ filePc = "idle"

ContentIdle ==
    /\ loadPc = "idle"
    /\ dirTodo = {}
    /\ partialFilePath = << >>
    /\ registered = {}
    /\ entryFileContent = Null
    /\ fsCalls = << >>
    /\ loadErr = Null
    /\ loadOut = Null

SharedIdle ==
    /\ sharedSvc = Null
    /\ sharedCalls = << >>
    /\ registeredBy = << >>

StringsIdle ==
    /\ stringsConfig = Null
    /\ launchCwd = Null
    /\ launched = << >>
    /\ stringsOut = Null

HooksIdle ==
    /\ hookServices = << >>
    /\ hookExisting = FALSE
    /\ hookPc = "idle"
    /\ hookIdx = 0
    /\ running = Null
    /\ started = << >>
    /\ effects = << >>
    /\ hookText = Null
    /\ hookErr = Null
    /\ hookOut = Null

Init ==
    /\ SharedIdle
    /\ StringsIdle
    /\ FilesIdle
    /\ HooksIdle
    /\ ContentIdle
    /\ \/ /\ entryPoint \in {"build", "buildWithNoErrorHandling"}
          /\ \E c \in Cases :
                /\ optionsArg = c.o
                /\ overrideOptions = c.v
                /\ existingServices = c.s
          /\ pc = "start"
       \* build-article: the options are yet to be loaded, and build is
       \* called with them and the config path alone.
       \/ /\ entryPoint = "main"
          /\ optionsArg = Null
          /\ overrideOptions = << >>
          /\ existingServices = Null
          /\ pc = "load"
    /\ givenOptions = optionsArg
    /\ lastLoad = Null
    /\ fsLog = << >>
    /\ options = Null
    /\ subProjectsData = Null
    /\ subTodo = {}
    /\ strings = Null
    /\ services = Null
    \* A supplied map holds an ImageService its owner constructed.
    /\ svc = IF existingServices = Null THEN Null
             ELSE ImageServiceConstructor(optionsArg)
    /\ ctx = Null
    /\ resolved = Null
    /\ evaluating = FALSE
    /\ pending = 0
    /\ calls = 0
    /\ generatedText = Null
    /\ buildText = Null
    /\ copyIdx = 0
    /\ copies = <<>>
    /\ err = Null
    /\ printed = <<>>
    /\ outcome = Null
    /\ firstRef = <<>>
    /\ lastCall = Null
    /\ trace = <<>>

\* A step of buildWithNoErrorHandling throws e.
Throws(e) ==
    /\ err' = e
    /\ pc' = "throw"

\* A step completes and control reaches the next one.
Goes(event, next) ==
    /\ trace' = Append(trace, event)
    /\ pc' = next

\* ------------------------------------------------------------ render context

\* A context into which the data of every sub-project is merged.
RECURSIVE MergedInto(_, _, _)
MergedInto(context, subData, names) ==
    IF names = {} THEN context
    ELSE LET n == CHOOSE n \in names : TRUE
         IN  MergedInto(Spread(context, subData[n]), subData, names \ {n})

TemplateContextMerged(opts, subData) ==
    MergedInto(opts.data, subData, DOMAIN subData)

\* The context argument of template(): options.data (line 175).  Sub-project
\* data is in scope there but is not part of it.
TemplateContext(opts, subData) == opts.data

\* The data frame with the sub-project data spread last.
TemplateDataReversed(subData, opts, strs, servs) ==
    Spread([config |-> opts, strings |-> strs, services |-> servs], subData)

\* The data frame handed to template() (lines 176-183).
TemplateData(subData, opts, strs, servs) ==
    Spread(subData, [config |-> opts, strings |-> strs, services |-> servs])

\* What the mustache {{name}} evaluates to: the context's property of that
\* name (strict mode raises when there is none).
LookupName(context, name) ==
    IF name \in DOMAIN context THEN [value |-> context[name]] ELSE Null

\* ----------------------------------------------------------- error reporting

\* printException(e): the printer the instanceof chain selects.
PrintException(e) ==
    IF e.kind = "ValidationException" THEN "printValidationException"
    ELSE IF e.kind = "ComponentException" THEN "printComponentException"
    ELSE IF e.kind = "RuntimeException" THEN "printRuntimeException"
    ELSE "printOtherExceptions"

\* -------------------------------------------------- buildWithNoErrorHandling

\* const options = await loadBuildConfig(configPath)  (build-article)
MainLoad ==
    /\ pc = "load"
    /\ \E configPath \in MainPaths, code \in {"ok"} \cup ImportFailures :
          LET loaded == LoadBuildConfig(configPath, Import(configPath, code))
          IN  /\ lastLoad' = [configPath |-> configPath, code |-> code,
                              result |-> loaded, by |-> "main"]
              /\ IF loaded.ok
                 THEN /\ optionsArg' = loaded.value
                      /\ givenOptions' = loaded.value
                      /\ pc' = "mkdir"
                      /\ UNCHANGED err
                 ELSE /\ err' = loaded.error
                      /\ pc' = "mainCatch"
                      /\ UNCHANGED << optionsArg, givenOptions >>
    /\ UNCHANGED << outsideBuild, entryPoint, overrideOptions, existingServices, fsLog,
                    loadVars, svcVars, rendVars, calls, firstRef, lastCall,
                    copyVars, buildText, printed, outcome, trace >>

\* await createOutputDir(options)
CreateOutputDir ==
    /\ pc = "mkdir"
    /\ fsLog' = Append(fsLog, [op |-> "mkdir", path |-> optionsArg.output.dir])
    /\ \/ pc' = "start" /\ UNCHANGED err
       \/ /\ err' = Exception("RuntimeException", "mkdir")
          /\ pc' = "mainCatch"
    /\ UNCHANGED << outsideBuild, args, optionsArg, lastLoad, loadVars, svcVars, rendVars,
                    calls, firstRef, lastCall, copyVars, buildText, printed,
                    outcome, trace >>

\* A test that only null fails.
TruthyNotNull(text) == text # Null

\* if (generatedText): the empty text and null are both falsy.
Truthy(text) == text # Null /\ text # [text |-> ""]

\* await writeToOutputFile(options, generatedText)
WriteToOutputFile ==
    /\ pc = "write"
    /\ fsLog' = Append(fsLog,
                       [op   |-> "open",
                        path |-> Resolve(optionsArg.output.dir,
                                         optionsArg.output.filename)])
    /\ \/ pc' = "done" /\ UNCHANGED err
       \/ /\ err' = Exception("RuntimeException", "write")
          /\ pc' = "mainCatch"
    /\ UNCHANGED << outsideBuild, args, optionsArg, lastLoad, loadVars, svcVars, rendVars,
                    calls, firstRef, lastCall, copyVars, buildText, printed,
                    outcome, trace >>

\* build-article: catch (e) { printException(e); }
MainCatch ==
    /\ pc = "mainCatch"
    /\ printed' = Append(printed, [e |-> err, by |-> PrintException(err)])
    /\ pc' = "done"
    /\ UNCHANGED << outsideBuild, args, optionsArg, mainVars, loadVars, svcVars, rendVars,
                    calls, firstRef, lastCall, copyVars, buildText, err,
                    outcome, trace >>

\* build is the function whose catch handles the exceptions of the run.
ViaBuild == entryPoint \in {"build", "main"}

\* The caller invokes build or buildWithNoErrorHandling.
Call ==
    /\ pc = "start"
    /\ Goes("call", "merge")
    /\ UNCHANGED << outsideBuild, args, optionsArg, mainVars, loadVars, svcVars, rendVars, calls, firstRef,
                    lastCall, copyVars, endVars >>

\* A merge in which the caller's values win.
MergedOptionsReversed(opts, over) == Spread(over, opts)

\* { ...options, ...overrideOptions }: the value bound to the local options.
MergedOptions(opts, over) == Spread(opts, over)

\* The object the caller passed, after that statement: the spread builds a
\* new object and only the parameter is rebound.
CallerOptions(opts, over) == opts

\* options = { ...options, ...overrideOptions }
MergeOptions ==
    /\ pc = "merge"
    /\ options' = MergedOptions(optionsArg, overrideOptions)
    /\ optionsArg' = CallerOptions(optionsArg, overrideOptions)
    /\ Goes("merge", "validate")
    /\ UNCHANGED << outsideBuild, args, mainVars, subProjectsData, subTodo, strings, svcVars, rendVars,
                    calls, firstRef, lastCall, copyVars, endVars >>

\* A validation whose failure is recorded while the build goes on.
ValidateNoAbort ==
    /\ pc = "validate"
    /\ LET violations == CheckNamedParams(BuildOptionsSpec, options)
       IN  IF violations = {}
           THEN Goes("validate", "components") /\ UNCHANGED err
           ELSE /\ err' = ValidationException(violations)
                /\ Goes("validate", "components")
    /\ UNCHANGED << outsideBuild, args, optionsArg, mainVars, loadVars, svcVars, rendVars, calls, firstRef,
                    lastCall, copyVars, buildText, printed, outcome >>

\* checkNamedParams(buildOptionsSpec, options)
Validate ==
    /\ pc = "validate"
    /\ LET violations == CheckNamedParams(BuildOptionsSpec, options)
       IN  IF violations = {}
           THEN Goes("validate", "components") /\ UNCHANGED err
           ELSE Throws(ValidationException(violations)) /\ UNCHANGED trace
    /\ UNCHANGED << outsideBuild, args, optionsArg, mainVars, loadVars, svcVars, rendVars, calls, firstRef,
                    lastCall, copyVars, buildText, printed, outcome >>

\* registerComponents(options, h)
RegisterComponents ==
    /\ pc = "components"
    /\ Goes("components", "partials")
    /\ UNCHANGED << outsideBuild, args, optionsArg, mainVars, loadVars, svcVars, rendVars, calls, firstRef,
                    lastCall, copyVars, endVars >>

\* await registerPartials(options, h)
RegisterPartials ==
    /\ pc = "partials"
    /\ \/ Goes("partials", "subprojects") /\ UNCHANGED err
       \/ Throws(Exception("RuntimeException", "partials")) /\ UNCHANGED trace
       \/ Throws(Exception("Error", "partials")) /\ UNCHANGED trace
    /\ UNCHANGED << outsideBuild, args, optionsArg, mainVars, loadVars, svcVars, rendVars, calls, firstRef,
                    lastCall, copyVars, buildText, printed, outcome >>

\* loadSubProjectsData: subProjectsData = {} and the keys of subProjects.
LoadSubProjectsData ==
    /\ pc = "subprojects"
    /\ subProjectsData' = <<>>
    /\ subTodo' = DOMAIN options.subProjects
    /\ pc' = "subproject"
    /\ UNCHANGED << outsideBuild, args, optionsArg, mainVars, options, strings, svcVars, rendVars, calls, firstRef,
                    lastCall, copyVars, endVars, trace >>

\* An entry holding the whole configuration of the sub-project.
SubProjectEntryWhole(buildOptions) == buildOptions

\* The value stored under the sub-project's name.
SubProjectEntry(buildOptions) == buildOptions.data

\* One iteration of its loop:
\*   buildOptions = await loadBuildConfig(configPath);
\*   subProjectsData[subProjectName] = buildOptions.data;
LoadSubProject(name) ==
    /\ pc = "subproject"
    /\ name \in subTodo
    /\ name = FirstKey(subTodo)
    /\ \E code \in {"ok"} \cup ImportFailures :
          LET configPath   == options.subProjects[name]
              buildOptions == LoadBuildConfig(configPath,
                                              Import(configPath, code))
          IN  /\ lastLoad' = [configPath |-> configPath, code |-> code,
                              result |-> buildOptions, by |-> name]
              /\ IF buildOptions.ok
                 THEN /\ subProjectsData' =
                            Spread(subProjectsData,
                                   [k \in {name} |->
                                       SubProjectEntry(buildOptions.value)])
                      /\ subTodo' = subTodo \ {name}
                      /\ UNCHANGED << pc, err >>
                 ELSE /\ Throws(buildOptions.error)
                      /\ UNCHANGED << subProjectsData, subTodo >>
    /\ UNCHANGED << outsideBuild, args, optionsArg, fsLog, options, strings, svcVars, rendVars,
                    calls, firstRef, lastCall, copyVars, buildText, printed,
                    outcome, trace >>

\* return subProjectsData
LoadSubProjectsDone ==
    /\ pc = "subproject"
    /\ subTodo = {}
    /\ Goes("subprojects", "strings")
    /\ UNCHANGED << outsideBuild, args, optionsArg, mainVars, loadVars, svcVars, rendVars, calls, firstRef,
                    lastCall, copyVars, endVars >>

\* strings = loadStrings(options, configFilePath)
LoadStrings ==
    /\ pc = "strings"
    /\ \/ strings' = StringsFile /\ Goes("strings", "entry") /\ UNCHANGED err
       \/ Throws(Exception("RuntimeException", "strings"))
          /\ UNCHANGED << strings, trace >>
    /\ UNCHANGED << outsideBuild, args, optionsArg, mainVars, options, subProjectsData, subTodo, svcVars, rendVars,
                    calls, firstRef, lastCall, copyVars, buildText, printed,
                    outcome >>

\* entryFileContent = await loadEntryFileContent(options)
LoadEntryFileContent ==
    /\ pc = "entry"
    /\ \/ Goes("entry", "services") /\ UNCHANGED err
       \/ Throws(Exception("RuntimeException", "entry")) /\ UNCHANGED trace
       \/ Throws(Exception("Error", "entry")) /\ UNCHANGED trace
    /\ UNCHANGED << outsideBuild, args, optionsArg, mainVars, loadVars, svcVars, rendVars, calls, firstRef,
                    lastCall, copyVars, buildText, printed, outcome >>

\* createServices(options): { ImageService: new ImageService(options) }
CreateServices(opts) == [id |-> "created"]

\* services = existingServices || createServices(options)
ObtainServices ==
    /\ pc = "services"
    /\ IF existingServices # Null
       THEN /\ services' = existingServices
            /\ svc' = svc
            /\ Goes("services", "compile")
       ELSE /\ services' = CreateServices(options)
            /\ svc' = ImageServiceConstructor(options)
            /\ trace' = trace \o <<"construct", "services">>
            /\ pc' = "compile"
    /\ UNCHANGED << outsideBuild, args, optionsArg, mainVars, loadVars, rendVars, calls, firstRef, lastCall,
                    copyVars, endVars >>

\* template = h.compile(wrappedEntryContent, handlebarsOptions)
Compile ==
    /\ pc = "compile"
    /\ Goes("compile", "before")
    /\ UNCHANGED << outsideBuild, args, optionsArg, mainVars, loadVars, svcVars, rendVars, calls, firstRef,
                    lastCall, copyVars, endVars >>

\* if (!existingServices) await servicesBefore(services);
\* the only service is the ImageService, whose beforeBuild is Service's
\* empty one.
ServicesBefore ==
    /\ pc = "before"
    /\ IF existingServices = Null
       THEN Goes("beforeBuild", "render")
       ELSE pc' = "render" /\ UNCHANGED trace
    /\ UNCHANGED << outsideBuild, args, optionsArg, mainVars, loadVars, svcVars, rendVars, calls, firstRef,
                    lastCall, copyVars, endVars >>

\* ------------------------------------------------------------------- render

\* registerImage(p) called on the ImageService of the service map in use.
RegisterImage(p, async) ==
    /\ svc' = [svc EXCEPT !.images = RegisterImages(svc, p)]
    /\ calls' = calls + 1
    /\ firstRef' = IF p \in DOMAIN firstRef THEN firstRef
                   ELSE firstRef @@ (p :> RegisterReturn(svc, p))
    /\ lastCall' = [input |-> p, ret |-> RegisterReturn(svc, p),
                    before |-> svc.images, async |-> async]
    /\ trace' = Append(trace, "registerImage")

\* template(options.data, { data: { ...subProjectsData, config, strings,
\* services } }): the arguments are built and the evaluation pass starts.
RenderStart ==
    /\ pc = "render"
    /\ ~evaluating /\ ctx = Null
    /\ ctx' = TemplateData(subProjectsData, options, strings, services)
    /\ resolved' = LookupName(TemplateContext(options, subProjectsData), "x")
    /\ evaluating' = TRUE
    /\ trace' = Append(trace, "renderStart")
    /\ UNCHANGED << outsideBuild, args, optionsArg, mainVars, pc, loadVars, svcVars, pending, generatedText, calls,
                    firstRef, lastCall, copyVars, endVars >>

\* A helper of the template calls services.ImageService.registerImage(p)
\* while the template is being evaluated.
HelperSync(p) ==
    /\ pc = "render" /\ evaluating
    /\ calls + pending < MaxCalls
    /\ RegisterImage(p, FALSE)
    /\ UNCHANGED << outsideBuild, args, optionsArg, mainVars, pc, loadVars, services, rendVars, copyVars, endVars >>

\* A helper returns a promise: its work goes on after the evaluation pass.
HelperAsyncStart ==
    /\ pc = "render" /\ evaluating
    /\ pending < MaxPending
    /\ calls + pending < MaxCalls
    /\ pending' = pending + 1
    /\ UNCHANGED << outsideBuild, args, optionsArg, mainVars, pc, loadVars, svcVars, ctx, resolved, evaluating,
                    generatedText, calls, firstRef, lastCall, copyVars, endVars,
                    trace >>

\* The work of an asynchronous helper: it registers an image and its
\* promise resolves.  Nothing cancels it when the render has failed.
HelperAsyncRun(p) ==
    /\ pending > 0
    /\ RegisterImage(p, TRUE)
    /\ pending' = pending - 1
    /\ UNCHANGED << outsideBuild, args, optionsArg, mainVars, pc, loadVars, services, ctx, resolved, evaluating,
                    generatedText, copyVars, endVars >>

\* The evaluation pass reaches the end of the template.
EvalEnd ==
    /\ pc = "render" /\ evaluating
    /\ evaluating' = FALSE
    /\ UNCHANGED << outsideBuild, args, optionsArg, mainVars, pc, loadVars, svcVars, ctx, resolved, pending,
                    generatedText, calls, firstRef, lastCall, copyVars, endVars,
                    trace >>

\* A render that resolves without waiting for the helper promises.
RenderResolveEarly(text) ==
    /\ pc = "render" /\ ctx # Null
    /\ ~evaluating
    /\ generatedText' = text
    /\ Goes("renderEnd", "after")
    /\ UNCHANGED << outsideBuild, args, optionsArg, mainVars, loadVars, svcVars, ctx, resolved, evaluating,
                    pending, calls, firstRef, lastCall, copyVars, endVars >>

\* generatedText = await template(...): the promise resolves once the pass
\* is over and every helper promise has resolved.
RenderResolve(text) ==
    /\ pc = "render" /\ ctx # Null
    /\ ~evaluating /\ pending = 0
    /\ generatedText' = text
    /\ Goes("renderEnd", "after")
    /\ UNCHANGED << outsideBuild, args, optionsArg, mainVars, loadVars, svcVars, ctx, resolved, evaluating,
                    pending, calls, firstRef, lastCall, copyVars, endVars >>

\* A failed render after which the after-hooks still run.
RenderFailThenAfter ==
    /\ pc = "render" /\ ctx # Null
    /\ evaluating \/ pending > 0
    /\ err' \in {Exception("ComponentException", "helper"),
                  Exception("RuntimeException", "helper"),
                  Exception("Error", "template")}
    /\ pc' = "after"
    /\ evaluating' = FALSE
    /\ UNCHANGED << outsideBuild, args, optionsArg, mainVars, loadVars, svcVars, ctx, resolved, pending,
                    generatedText, calls, firstRef, lastCall, copyVars,
                    buildText, printed, outcome, trace >>

\* A helper throws, a helper promise rejects or Handlebars raises.
RenderFail ==
    /\ pc = "render" /\ ctx # Null
    /\ evaluating \/ pending > 0
    /\ \/ Throws(Exception("ComponentException", "helper"))
       \/ Throws(Exception("RuntimeException", "helper"))
       \/ Throws(Exception("Error", "template"))
    /\ evaluating' = FALSE
    /\ UNCHANGED << outsideBuild, args, optionsArg, mainVars, loadVars, svcVars, ctx, resolved, pending,
                    generatedText, calls, firstRef, lastCall, copyVars,
                    buildText, printed, outcome, trace >>

\* --------------------------------------------------------------- after-hooks

\* After-hooks run whatever existingServices is.
ServicesAfterAlways ==
    /\ pc = "after"
    /\ copyIdx' = 1
    /\ Goes("afterBuild", "copy")
    /\ UNCHANGED << outsideBuild, args, optionsArg, mainVars, loadVars, svcVars, rendVars, calls, firstRef,
                    lastCall, copies, endVars >>

\* if (!existingServices) await servicesAfter(services);
\* the only service is the ImageService: its afterBuild starts.
ServicesAfter ==
    /\ pc = "after"
    /\ IF existingServices = Null
       THEN /\ copyIdx' = 1
            /\ Goes("afterBuild", "copy")
       ELSE /\ pc' = "return"
            /\ UNCHANGED << copyIdx, trace >>
    /\ UNCHANGED << outsideBuild, args, optionsArg, mainVars, loadVars, svcVars, rendVars, calls, firstRef,
                    lastCall, copies, endVars >>

\* A loop that visits this.images from its last entry to its first.
CopyFileBackwards ==
    /\ pc = "copy"
    /\ copyIdx <= Len(svc.images)
    /\ \/ /\ copies' = Append(copies, [image |-> svc.images[Len(svc.images) + 1 - copyIdx], ok |-> TRUE])
          /\ copyIdx' = copyIdx + 1
          /\ UNCHANGED << pc, err >>
       \/ /\ copies' = Append(copies, [image |-> svc.images[Len(svc.images) + 1 - copyIdx], ok |-> FALSE])
          /\ Throws(ServiceError(svc, svc.images[Len(svc.images) + 1 - copyIdx]))
          /\ UNCHANGED copyIdx
    /\ UNCHANGED << outsideBuild, args, optionsArg, mainVars, loadVars, svcVars, rendVars, calls, firstRef,
                    lastCall, buildText, printed, outcome, trace >>

\* ImageService.afterBuild, one iteration of `for (let image of this.images)`:
\*   try { await fs.copyFile(image.inputPath, image.outputPath); }
\*   catch (e) { this.error(...); }
CopyFile ==
    /\ pc = "copy"
    /\ copyIdx <= Len(svc.images)
    /\ \/ /\ copies' = Append(copies, [image |-> svc.images[copyIdx], ok |-> TRUE])
          /\ copyIdx' = copyIdx + 1
          /\ UNCHANGED << pc, err >>
       \/ /\ copies' = Append(copies, [image |-> svc.images[copyIdx], ok |-> FALSE])
          /\ Throws(ServiceError(svc, svc.images[copyIdx]))
          /\ UNCHANGED copyIdx
    /\ UNCHANGED << outsideBuild, args, optionsArg, mainVars, loadVars, svcVars, rendVars, calls, firstRef,
                    lastCall, buildText, printed, outcome, trace >>

\* The loop is over: afterBuild and servicesAfter resolve.
AfterBuildDone ==
    /\ pc = "copy"
    /\ copyIdx > Len(svc.images)
    /\ Goes("afterEnd", "return")
    /\ UNCHANGED << outsideBuild, args, optionsArg, mainVars, loadVars, svcVars, rendVars, calls, firstRef,
                    lastCall, copyVars, endVars >>

\* ---------------------------------------------------------- return and catch

\* return generatedText (line 190): to the caller, or to build's await.
Return ==
    /\ pc = "return"
    /\ IF ViaBuild
       THEN /\ buildText' = generatedText
            /\ pc' = "buildReturn"
            /\ UNCHANGED outcome
       ELSE /\ outcome' = [returned |-> generatedText]
            /\ pc' = "done"
            /\ UNCHANGED buildText
    /\ UNCHANGED << outsideBuild, args, optionsArg, mainVars, loadVars, svcVars, rendVars, calls, firstRef,
                    lastCall, copyVars, err, printed, trace >>

\* buildWithNoErrorHandling has no handler: the exception reaches its caller.
Propagate ==
    /\ pc = "throw"
    /\ entryPoint = "buildWithNoErrorHandling"
    /\ outcome' = [thrown |-> err]
    /\ pc' = "done"
    /\ UNCHANGED << outsideBuild, args, optionsArg, mainVars, loadVars, svcVars, rendVars, calls, firstRef,
                    lastCall, copyVars, buildText, err, printed, trace >>

\* A handler that prints and throws the exception again.
BuildCatchRethrow ==
    /\ pc = "throw"
    /\ ViaBuild
    /\ printed' = Append(printed, [e |-> err, by |-> PrintException(err)])
    /\ outcome' = [thrown |-> err]
    /\ pc' = "done"
    /\ UNCHANGED << outsideBuild, args, optionsArg, mainVars, loadVars, svcVars, rendVars, calls, firstRef,
                    lastCall, copyVars, buildText, err, trace >>

\* build: catch(e) { printException(e); }
BuildCatch ==
    /\ pc = "throw"
    /\ ViaBuild
    /\ printed' = Append(printed, [e |-> err, by |-> PrintException(err)])
    /\ pc' = "buildReturn"
    /\ UNCHANGED << outsideBuild, args, optionsArg, mainVars, loadVars, svcVars, rendVars, calls, firstRef,
                    lastCall, copyVars, buildText, err, outcome, trace >>

\* build: return generatedText
BuildReturn ==
    /\ pc = "buildReturn"
    /\ outcome' = [returned |-> buildText]
    /\ pc' = IF entryPoint = "main" /\ Truthy(buildText) THEN "write" ELSE "done"
    /\ UNCHANGED << outsideBuild, args, optionsArg, mainVars, loadVars, svcVars, rendVars, calls, firstRef,
                    lastCall, copyVars, buildText, err, printed, trace >>

Next ==
    \/ MainLoad
    \/ CreateOutputDir
    \/ WriteToOutputFile
    \/ MainCatch
    \/ Call
    \/ MergeOptions
    \/ Validate
    \/ RegisterComponents
    \/ RegisterPartials
    \/ LoadSubProjectsData
    \/ \E name \in subTodo : LoadSubProject(name)
    \/ LoadSubProjectsDone
    \/ LoadStrings
    \/ LoadEntryFileContent
    \/ ObtainServices
    \/ Compile
    \/ ServicesBefore
    \/ RenderStart
    \/ \E p \in InputPaths : HelperSync(p)
    \/ HelperAsyncStart
    \/ \E p \in InputPaths : HelperAsyncRun(p)
    \/ EvalEnd
    \/ \E text \in Texts : RenderResolve(text)
    \/ RenderFail
    \/ ServicesAfter
    \/ CopyFile
    \/ AfterBuildDone
    \/ Return
    \/ Propagate
    \/ BuildCatch
    \/ BuildReturn

Spec == Init /\ [][Next]_vars

\* ---------------------------------------------------- file-scoped frames

\* A path is absolute.
IsAbsolute(p) == p # << >> /\ Head(p) = "/"

\* The file a path handed to fs.open or fs.opendir denotes: a relative path
\* is taken from the working directory.
Opened(dir, p) == IF IsAbsolute(p) THEN p ELSE dir \o <<"/">> \o p

\* path.resolve(dir, name) for a name that has no directory part: a relative
\* dir is taken from the working directory.
PathResolve(workingDir, dir, name) ==
    (IF IsAbsolute(dir) THEN dir ELSE workingDir \o <<"/">> \o dir)
       \o <<"/">> \o name

\* The working directories of the builds.
WorkingDirs == { <<"/", "w">> }

\* The forms of the entry option: relative and absolute.
Entries == { <<"e">>, <<"/", "w", "/", "e">> }

\* The forms of the partialsDir option: relative and absolute.
PartialsDirs == { <<"d">>, <<"/", "w", "/", "d">> }

\* dirent.name for the files of the partials directory.
DirentNames == { <<"a">>, <<"b">> }

\* The data frame template() is called with: it has no currentFilePath.
RootFrame == [currentFilePath |-> << >>, parent |-> 0]

\* Handlebars.createFrame(object): a new frame holding the properties of
\* object, with object as its _parent.
CreateFrame(frames, object) ==
    Append(frames, [frames[object] EXCEPT !.parent = object])

\* A __file that sets currentFilePath on the frame it was given.
FileOnSharedFrame(frames, data, currentFilePath) ==
    [heap |-> [frames EXCEPT ![data].currentFilePath = currentFilePath],
     data |-> data]

\* __file(currentFilePath, options): the heap after
\*   const data = Handlebars.createFrame(options.data || {});
\*   data.currentFilePath = currentFilePath;
\* and the frame options.fn(this, { data }) evaluates the body with.
File(frames, data, currentFilePath) ==
    LET created == CreateFrame(frames, data)
    IN  [heap |-> [created EXCEPT ![Len(created)].currentFilePath =
                                     currentFilePath],
         data |-> Len(created)]

BuildIdle ==
    /\ entryPoint = "buildWithNoErrorHandling"
    /\ optionsArg = Null
    /\ overrideOptions = << >>
    /\ existingServices = Null
    /\ givenOptions = Null
    /\ lastLoad = Null
    /\ fsLog = << >>
    /\ pc = "files"
    /\ options = Null
    /\ subProjectsData = Null
    /\ subTodo = {}
    /\ strings = Null
    /\ services = Null
    /\ svc = Null
    /\ ctx = Null
    /\ resolved = Null
    /\ evaluating = FALSE
    /\ pending = 0
    /\ calls = 0
    /\ generatedText = Null
    /\ buildText = Null
    /\ copyIdx = 0
    /\ copies = <<>>
    /\ err = Null
    /\ printed = <<>>
    /\ outcome = Null
    /\ firstRef = <<>>
    /\ lastCall = Null
    /\ trace = <<>>

InitFile ==
    /\ SharedIdle
    /\ StringsIdle
    /\ BuildIdle
    /\ HooksIdle
    /\ ContentIdle
    /\ cwd \in WorkingDirs
    /\ \E e \in Entries, d \in PartialsDirs :
          fileOptions = [entry |-> e, partialsDir |-> d]
    /\ partials = << >>
    /\ wrappedEntry = << >>
    /\ heap = << >>
    /\ dataStack = << >>
    /\ blocks = << >>
    /\ seen = Null
    /\ lastLeft = Null
    /\ filePc = "partials"

\* registerPartials: every file of the partials directory is registered
\* under its name, wrapped in a __file block for its resolved path.
FileRegisterPartials ==
    /\ filePc = "partials"
    /\ partials' = [name \in DirentNames |->
                       PathResolve(cwd, fileOptions.partialsDir, name)]
    /\ filePc' = "compile"
    /\ UNCHANGED << outsideFiles, cwd, fileOptions, wrappedEntry, heap,
                    dataStack, blocks, seen, lastLeft >>

\* The entry content is wrapped in {{#__file '${options.entry}' }} and
\* compiled, and template() is called with its root data frame.
FileCompile ==
    /\ filePc = "compile"
    /\ wrappedEntry' = fileOptions.entry
    /\ heap' = << RootFrame >>
    /\ dataStack' = << 1 >>
    /\ filePc' = "render"
    /\ UNCHANGED << outsideFiles, cwd, fileOptions, partials, blocks, seen,
                    lastLeft >>

\* The evaluation enters a __file block wrapping the content of a file.
EnterBlock(currentFilePath, file) ==
    LET entered == File(heap, dataStack[Len(dataStack)], currentFilePath)
    IN  /\ heap' = entered.heap
        /\ dataStack' = Append(dataStack, entered.data)
        /\ blocks' = Append(blocks, [path |-> currentFilePath, file |-> file])

\* The evaluation of the template starts: it enters the block of the entry,
\* whose content loadEntryFileContent read from options.entry.
FileEnterEntry ==
    /\ filePc = "render"
    /\ EnterBlock(wrappedEntry, Opened(cwd, fileOptions.entry))
    /\ filePc' = "body"
    /\ UNCHANGED << outsideFiles, cwd, fileOptions, partials, wrappedEntry, seen,
                    lastLeft >>

\* The body being evaluated includes a partial: the evaluation enters the
\* block of that partial, whose content registerPartials read from the
\* path it resolved.
FileEnterPartial(name) ==
    /\ filePc = "body"
    /\ Len(blocks) < MaxDepth
    /\ EnterBlock(partials[name], Opened(cwd, partials[name]))
    /\ UNCHANGED << outsideFiles, cwd, fileOptions, partials, wrappedEntry, seen,
                    lastLeft, filePc >>

\* The body being evaluated calls a helper, which reads
\* options.data.currentFilePath.
FileHelper ==
    /\ filePc = "body"
    /\ seen' = [currentFilePath |->
                   heap[dataStack[Len(dataStack)]].currentFilePath,
                block |-> blocks[Len(blocks)],
                depth |-> Len(blocks),
                after |-> lastLeft]
    /\ UNCHANGED << outsideFiles, cwd, fileOptions, partials, wrappedEntry, heap,
                    dataStack, blocks, lastLeft, filePc >>

\* The block being evaluated ends: options.fn returns, and the frame it
\* was called with is dropped unless an enclosing block holds it.
FileLeave ==
    /\ filePc = "body"
    /\ LET data  == dataStack[Len(dataStack)]
           outer == SubSeq(dataStack, 1, Len(dataStack) - 1)
       IN  /\ dataStack' = outer
           /\ heap' = IF \E i \in 1..Len(outer) : outer[i] = data
                      THEN heap
                      ELSE SubSeq(heap, 1, Len(heap) - 1)
    /\ lastLeft' = blocks[Len(blocks)]
    /\ blocks' = SubSeq(blocks, 1, Len(blocks) - 1)
    /\ filePc' = IF Len(blocks) = 1 THEN "done" ELSE "body"
    /\ UNCHANGED << outsideFiles, cwd, fileOptions, partials, wrappedEntry, seen >>

NextFile ==
    \/ FileRegisterPartials
    \/ FileCompile
    \/ FileEnterEntry
    \/ \E name \in DirentNames : FileEnterPartial(name)
    \/ FileHelper
    \/ FileLeave

SpecFile == InitFile /\ [][NextFile]_vars

\* ------------------------------------------------------------ service hooks

\* Property names a services object can have.  None is an integer index, so
\* for...in visits them in the order in which they were added.
ServiceKeys ==
    {<<"ImageService", "FontService", "StyleService", "ScriptService",
       "AudioService">>[i] : i \in 1..MaxServices}

\* The services objects: up to MaxServices services, in the order in which
\* their properties were added.
ServiceObjects ==
    {q \in UNION {[1..n -> ServiceKeys] : n \in 0..MaxServices} :
        \A i, j \in DOMAIN q : i # j => q[i] # q[j]}

\* What a hook of the service under `key` can throw: a RuntimeException
\* raised through Service.error, or any other error.
HookFailures(key, hook) ==
    {ServiceError([serviceName |-> key, options |-> Null], hook),
     Exception("Error", hook)}

\* The state at line 171, the template compiled.
InitHooks ==
    /\ SharedIdle
    /\ StringsIdle
    /\ BuildIdle
    /\ FilesIdle
    /\ ContentIdle
    /\ hookServices \in ServiceObjects
    /\ hookExisting \in BOOLEAN
    /\ hookPc = "servicesBefore"
    /\ hookIdx = 1
    /\ running = Null
    /\ started = << >>
    /\ effects = << >>
    /\ hookText = Null
    /\ hookErr = Null
    /\ hookOut = Null

\* The hook of a phase.
HookOf(phase) ==
    IF phase = "servicesBefore" THEN "beforeBuild" ELSE "afterBuild"

\* if (!existingServices) await servicesX(services), existingServices given:
\* the phase is skipped.
SkipPhase(phase, next) ==
    /\ hookPc = phase
    /\ hookExisting
    /\ hookPc' = next
    /\ UNCHANGED << outsideHooks, hookServices, hookExisting, hookIdx, running,
                    started, effects, hookText, hookErr, hookOut >>

\* One iteration of the for...in loop: services[service].xBuild() is called
\* and its promise awaited.
CallHook(phase) ==
    /\ hookPc = phase
    /\ ~hookExisting
    /\ running = Null
    /\ hookIdx <= Len(hookServices)
    /\ running' = [key |-> hookServices[hookIdx], hook |-> HookOf(phase)]
    /\ started' = Append(started, running')
    /\ UNCHANGED << outsideHooks, hookServices, hookExisting, hookPc, hookIdx,
                    effects, hookText, hookErr, hookOut >>

\* The awaited hook fulfils: its side effects are in place and the loop goes
\* on with the next property.
HookFulfils ==
    /\ running # Null
    /\ effects' = Append(effects, running)
    /\ running' = Null
    /\ hookIdx' = hookIdx + 1
    /\ UNCHANGED << outsideHooks, hookServices, hookExisting, hookPc, started,
                    hookText, hookErr, hookOut >>

\* The awaited hook rejects and the loop goes on with the next property,
\* keeping the error for later.
HookRejectsLoopGoesOn ==
    /\ running # Null
    /\ \E e \in HookFailures(running.key, running.hook) :
          hookErr' = [thrown |-> e, by |-> running]
    /\ running' = Null
    /\ hookIdx' = hookIdx + 1
    /\ UNCHANGED << outsideHooks, hookServices, hookExisting, hookPc, started,
                    effects, hookText, hookOut >>

\* The awaited hook rejects: the await throws, which leaves the loop,
\* servicesBefore / servicesAfter and buildWithNoErrorHandling, none of which
\* has a try block.
HookRejects ==
    /\ running # Null
    /\ \E e \in HookFailures(running.key, running.hook) :
          hookErr' = [thrown |-> e, by |-> running]
    /\ running' = Null
    /\ hookPc' = "throw"
    /\ UNCHANGED << outsideHooks, hookServices, hookExisting, hookIdx, started,
                    effects, hookText, hookOut >>

\* The loop has visited every property: the phase is over.
PhaseDone(phase, next) ==
    /\ hookPc = phase
    /\ ~hookExisting
    /\ running = Null
    /\ hookIdx > Len(hookServices)
    /\ hookPc' = next
    /\ hookIdx' = 1
    /\ UNCHANGED << outsideHooks, hookServices, hookExisting, running, started,
                    effects, hookText, hookErr, hookOut >>

\* await template(options.data, { data }): the text, or the error of the
\* rendering.
HookRender ==
    /\ hookPc = "template"
    /\ \/ /\ hookText' \in Texts
          /\ hookPc' = "servicesAfter"
          /\ UNCHANGED hookErr
       \/ /\ hookErr' = [thrown |-> Exception("Error", "template"),
                         by     |-> Null]
          /\ hookPc' = "throw"
          /\ UNCHANGED hookText
    /\ UNCHANGED << outsideHooks, hookServices, hookExisting, hookIdx, running,
                    started, effects, hookOut >>

\* return generatedText.
HookReturn ==
    /\ hookPc = "return"
    /\ hookOut' = [returned |-> hookText]
    /\ hookPc' = "done"
    /\ UNCHANGED << outsideHooks, hookServices, hookExisting, hookIdx, running,
                    started, effects, hookText, hookErr >>

\* The promise of buildWithNoErrorHandling rejects with the error.
HookPropagate ==
    /\ hookPc = "throw"
    /\ hookOut' = [thrown |-> hookErr.thrown]
    /\ hookPc' = "done"
    /\ UNCHANGED << outsideHooks, hookServices, hookExisting, hookIdx, running,
                    started, effects, hookText, hookErr >>

NextHooks ==
    \/ SkipPhase("servicesBefore", "template")
    \/ CallHook("servicesBefore")
    \/ HookFulfils
    \/ HookRejects
    \/ PhaseDone("servicesBefore", "template")
    \/ HookRender
    \/ SkipPhase("servicesAfter", "return")
    \/ CallHook("servicesAfter")
    \/ PhaseDone("servicesAfter", "return")
    \/ HookReturn
    \/ HookPropagate

SpecHooks == InitHooks /\ [][NextHooks]_vars

\* ---------------------------------------------------------- content loading

\* new RuntimeException(`Cannot ${operation}: ${path}`, info)
RuntimeException(operation, path) ==
    [kind |-> "RuntimeException", operation |-> operation, path |-> path]

\* The error a rejected fs promise carries when nothing catches it: Node's
\* own error for the system call.
SystemError(syscall) ==
    [kind |-> "Error", operation |-> syscall, path |-> << >>]

\* The state at the call of registerPartials.
InitContent ==
    /\ SharedIdle
    /\ StringsIdle
    /\ BuildIdle
    /\ HooksIdle
    /\ FramesIdle
    /\ cwd \in WorkingDirs
    /\ \E e \in Entries, d \in PartialsDirs :
          fileOptions = [entry |-> e, partialsDir |-> d]
    /\ loadPc = "opendir"
    /\ dirTodo = {}
    /\ partialFilePath = << >>
    /\ registered = {}
    /\ entryFileContent = Null
    /\ fsCalls = << >>
    /\ loadErr = Null
    /\ loadOut = Null

\* A filesystem operation is called on a path and fulfils or rejects.
FsCall(operation, path, ok) ==
    fsCalls' = Append(fsCalls, [operation |-> operation, path |-> path,
                                ok |-> ok])

\* A throw: nothing on the way to the caller of buildWithNoErrorHandling
\* catches it.
ContentThrows(e) ==
    /\ loadErr' = e
    /\ loadPc' = "throw"

\* await fs.opendir(options.partialsDir).catch(...)
OpenDir ==
    /\ loadPc = "opendir"
    /\ \/ /\ FsCall("open partials directory", fileOptions.partialsDir, TRUE)
          /\ dirTodo' = DirentNames
          /\ loadPc' = "dirent"
          /\ UNCHANGED loadErr
       \/ /\ FsCall("open partials directory", fileOptions.partialsDir, FALSE)
          /\ ContentThrows(RuntimeException("open partials directory",
                                            fileOptions.partialsDir))
          /\ UNCHANGED dirTodo
    /\ UNCHANGED << outsideContent, cwd, fileOptions, partialFilePath,
                    registered, entryFileContent, loadOut >>

\* for await (let dirent of partialsDir): the next dirent, in the order the
\* directory gives them, the end of the directory, or the error of the read.
\*   partialFilePath = path.resolve(options.partialsDir, dirent.name)
NextDirent ==
    /\ loadPc = "dirent"
    /\ \/ /\ dirTodo # {}
          /\ \E name \in dirTodo :
                /\ dirTodo' = dirTodo \ {name}
                /\ partialFilePath' =
                      PathResolve(cwd, fileOptions.partialsDir, name)
          /\ FsCall("read partials directory", fileOptions.partialsDir, TRUE)
          /\ loadPc' = "open partial"
          /\ UNCHANGED loadErr
       \/ /\ dirTodo = {}
          /\ FsCall("read partials directory", fileOptions.partialsDir, TRUE)
          /\ loadPc' = "open entry"
          /\ UNCHANGED << dirTodo, partialFilePath, loadErr >>
       \/ /\ FsCall("read partials directory", fileOptions.partialsDir, FALSE)
          /\ ContentThrows(SystemError("scandir"))
          /\ UNCHANGED << dirTodo, partialFilePath >>
    /\ UNCHANGED << outsideContent, cwd, fileOptions, registered,
                    entryFileContent, loadOut >>

\* A step of the loop body that awaits an fs promise with a .catch that
\* throws a RuntimeException for the operation on partialFilePath.
PartialStep(at, operation, next) ==
    /\ loadPc = at
    /\ \/ /\ FsCall(operation, partialFilePath, TRUE)
          /\ loadPc' = next
          /\ UNCHANGED loadErr
       \/ /\ FsCall(operation, partialFilePath, FALSE)
          /\ ContentThrows(RuntimeException(operation, partialFilePath))

\* await fs.open(partialFilePath, 'r').catch(...)
OpenPartial ==
    /\ PartialStep("open partial", "open partial file", "read partial")
    /\ UNCHANGED << outsideContent, cwd, fileOptions, dirTodo,
                    partialFilePath, registered, entryFileContent, loadOut >>

\* await partialFile.readFile('utf-8').catch(...), and with its content
\* h.registerPartial(partialName, wrappedPartialContent).
ReadPartial ==
    /\ PartialStep("read partial", "read partial file", "close partial")
    /\ registered' = IF loadPc' = "close partial"
                     THEN registered \cup {partialFilePath}
                     ELSE registered
    /\ UNCHANGED << outsideContent, cwd, fileOptions, dirTodo,
                    partialFilePath, entryFileContent, loadOut >>

\* await partialFile.close().catch(...)
ClosePartial ==
    /\ PartialStep("close partial", "close partial file", "dirent")
    /\ UNCHANGED << outsideContent, cwd, fileOptions, dirTodo,
                    partialFilePath, registered, entryFileContent, loadOut >>

\* await fs.open(options.entry, 'r').catch(...)
OpenEntry ==
    /\ loadPc = "open entry"
    /\ \/ /\ FsCall("open the entry file", fileOptions.entry, TRUE)
          /\ loadPc' = "read entry"
          /\ UNCHANGED loadErr
       \/ /\ FsCall("open the entry file", fileOptions.entry, FALSE)
          /\ ContentThrows(RuntimeException("open the entry file",
                                            fileOptions.entry))
    /\ UNCHANGED << outsideContent, cwd, fileOptions, dirTodo,
                    partialFilePath, registered, entryFileContent, loadOut >>

\* entryFileContent = await entryFile.readFile('utf-8').catch(...)
ReadEntry ==
    /\ loadPc = "read entry"
    /\ \/ /\ FsCall("read the entry file", fileOptions.entry, TRUE)
          /\ entryFileContent' \in Texts
          /\ loadPc' = "close entry"
          /\ UNCHANGED loadErr
       \/ /\ FsCall("read the entry file", fileOptions.entry, FALSE)
          /\ ContentThrows(RuntimeException("read the entry file",
                                            fileOptions.entry))
          /\ UNCHANGED entryFileContent
    /\ UNCHANGED << outsideContent, cwd, fileOptions, dirTodo,
                    partialFilePath, registered, loadOut >>

\* await entryFile.close(), with no .catch: a rejection is thrown as it is.
CloseEntry ==
    /\ loadPc = "close entry"
    /\ \/ /\ FsCall("close the entry file", fileOptions.entry, TRUE)
          /\ loadPc' = "return"
          /\ UNCHANGED loadErr
       \/ /\ FsCall("close the entry file", fileOptions.entry, FALSE)
          /\ ContentThrows(SystemError("close"))
    /\ UNCHANGED << outsideContent, cwd, fileOptions, dirTodo,
                    partialFilePath, registered, entryFileContent, loadOut >>

\* return entryFileContent
ContentReturn ==
    /\ loadPc = "return"
    /\ loadOut' = [returned |-> entryFileContent]
    /\ loadPc' = "done"
    /\ UNCHANGED << outsideContent, cwd, fileOptions, dirTodo,
                    partialFilePath, registered, entryFileContent, fsCalls,
                    loadErr >>

\* The promise of buildWithNoErrorHandling rejects with the error.
ContentPropagate ==
    /\ loadPc = "throw"
    /\ loadOut' = [thrown |-> loadErr]
    /\ loadPc' = "done"
    /\ UNCHANGED << outsideContent, cwd, fileOptions, dirTodo,
                    partialFilePath, registered, entryFileContent, fsCalls,
                    loadErr >>

NextContent ==
    \/ OpenDir
    \/ NextDirent
    \/ OpenPartial
    \/ ReadPartial
    \/ ClosePartial
    \/ OpenEntry
    \/ ReadEntry
    \/ CloseEntry
    \/ ContentReturn
    \/ ContentPropagate

SpecContent == InitContent /\ [][NextContent]_vars

\* -------------------------------------------------------- localized strings

\* The portions of a path whose portions are single elements.
Segments(p) == SelectSeq(p, LAMBDA c : c # "/")

\* The absolute path with the given portions.
FromSegments(segs) ==
    [i \in 1..(2 * Len(segs)) |-> IF i % 2 = 1 THEN "/" ELSE segs[i \div 2]]

\* path.dirname(p) of an absolute path below the root.
Dirname(p) ==
    LET segs == Segments(p)
    IN  FromSegments(SubSeq(segs, 1, Len(segs) - 1))

\* path.relative(from, to) for absolute, normalised paths: one ".." for every
\* portion of `from` below the common directory, then the portions of `to`
\* below it.
PathRelative(from, to) ==
    LET f == Segments(from)
        t == Segments(to)
        Common(k) == k <= Len(f) /\ k <= Len(t) /\ SubSeq(f, 1, k) = SubSeq(t, 1, k)
        n == CHOOSE k \in 0..Len(f) :
                Common(k) /\ \A j \in (k + 1)..Len(f) : ~Common(j)
    IN  [i \in 1..(Len(f) - n) |-> ".."] \o SubSeq(t, n + 1, Len(t))

\* The portions left when every ".." takes away the portion before it and
\* every "." is dropped.
RECURSIVE Normalized(_, _)
Normalized(done, todo) ==
    IF todo = << >> THEN done
    ELSE IF Head(todo) = "." THEN Normalized(done, Tail(todo))
    ELSE IF Head(todo) = ".."
         THEN Normalized(SubSeq(done, 1, Len(done) - 1), Tail(todo))
    ELSE Normalized(Append(done, Head(todo)), Tail(todo))

\* createRequire(`file://${configFilePath}`)(request) for a request that
\* starts with "./": the file the request denotes from the directory of
\* configFilePath.
ProjectRequire(configFilePath, request) ==
    FromSegments(Normalized(Segments(Dirname(configFilePath)), request))

\* loadStrings, up to the call of projectRequire:
\*   stringsAbsolutePath = path.resolve(options.stringsDir, `${locale}.json`)
\*   stringsPath = `.${path.sep}${path.relative(dirname(configFilePath),
\*                                              stringsAbsolutePath)}`
\* and the file projectRequire(stringsPath) loads.
StringsPaths(workingDir, configFilePath, opts) ==
    LET stringsAbsolutePath ==
            PathResolve(workingDir, opts.stringsDir, << opts.locale \o ".json" >>)
        stringsPath ==
            <<".">> \o PathRelative(Dirname(configFilePath), stringsAbsolutePath)
    IN  [stringsAbsolutePath |-> stringsAbsolutePath,
         stringsPath         |-> stringsPath,
         required            |-> ProjectRequire(configFilePath, stringsPath)]

\* The directories build-article is launched from.
LaunchDirs == { <<"/", "p">>, <<"/", "w">>, <<"/", "p", "/", "q">> }

\* The configurations: where the config file is, and its stringsDir (relative
\* or absolute) and locale.
StringsConfigs ==
    [configFilePath : { <<"/", "p", "/", "c.js">>,
                        <<"/", "p", "/", "q", "/", "c.js">> },
     stringsDir     : { <<"s">>, <<"/", "p", "/", "s">> },
     locale         : {"en", "fr"}]

\* A configuration, not yet launched.
InitStrings ==
    /\ SharedIdle
    /\ BuildIdle
    /\ FilesIdle
    /\ HooksIdle
    /\ ContentIdle
    /\ stringsConfig \in StringsConfigs
    /\ launchCwd = Null
    /\ launched = << >>
    /\ stringsOut = Null

\* build-article is launched in a working directory.
Launch ==
    /\ launchCwd = Null
    /\ Len(launched) < MaxLaunches
    /\ launchCwd' \in LaunchDirs
    /\ stringsOut' = Null
    /\ UNCHANGED << outsideStrings, stringsConfig, launched >>

\* strings = loadStrings(options, configFilePath): the content of the file
\* required, or the RuntimeException of the catch block.
LoadStringsFile ==
    /\ launchCwd # Null
    /\ LET paths == StringsPaths(launchCwd, stringsConfig.configFilePath,
                                 stringsConfig)
       IN  /\ launched' = Append(launched, [cwd      |-> launchCwd,
                                            required |-> paths.required])
           /\ \/ stringsOut' = [returned |-> StringsFile]
              \/ stringsOut' =
                    [thrown |-> RuntimeException("open localized strings file",
                                                 paths.stringsAbsolutePath)]
    /\ launchCwd' = Null
    /\ UNCHANGED << outsideStrings, stringsConfig >>

NextStrings ==
    \/ Launch
    \/ LoadStringsFile

SpecStrings == InitStrings /\ [][NextStrings]_vars

\* ------------------------------------------------- a shared ImageService

\* The paths the builds register: three files of the same name.
SharedInputs ==
    { <<"/", "a", "/", "l", ".", "p">>,
      <<"/", "b", "/", "l", ".", "p">>,
      <<"/", "c", "/", "l", ".", "p">> }

\* MaxBuilds calls of buildWithNoErrorHandling are rendering, each given the
\* same existingServices, whose ImageService its owner constructed.
InitShared ==
    /\ BuildIdle
    /\ FilesIdle
    /\ HooksIdle
    /\ ContentIdle
    /\ StringsIdle
    /\ sharedSvc = ImageServiceConstructor(Config(<< >>))
    /\ sharedCalls = [b \in 1..MaxBuilds |-> 0]
    /\ registeredBy = << >>

\* registerImage with a suspension between the lookup and the push: the
\* call of build b and a call of another build both look at the registry
\* before either of them pushes.
SharedRegisterImageSuspended(b) ==
    /\ sharedCalls[b] < MaxCalls
    /\ \E c \in (1..MaxBuilds) \ {b}, x, y \in SharedInputs :
          /\ sharedCalls[c] < MaxCalls
          /\ sharedSvc' =
                [sharedSvc EXCEPT !.images =
                    RegisterImages(sharedSvc, x)
                       \o SubSeq(RegisterImages(sharedSvc, y),
                                 Len(sharedSvc.images) + 1,
                                 Len(RegisterImages(sharedSvc, y)))]
          /\ sharedCalls' = [sharedCalls EXCEPT ![b] = @ + 1, ![c] = @ + 1]
          /\ registeredBy' =
                registeredBy
                   \o [i \in 1..(Len(sharedSvc'.images) - Len(sharedSvc.images))
                          |-> IF i = 1 THEN b ELSE c]
    /\ UNCHANGED outsideShared

\* A helper of build b calls services.ImageService.registerImage(path): the
\* method is synchronous, so the whole call is one step.
SharedRegisterImage(b) ==
    /\ sharedCalls[b] < MaxCalls
    /\ \E inputPath \in SharedInputs :
          /\ sharedSvc' = [sharedSvc EXCEPT !.images =
                              RegisterImages(sharedSvc, inputPath)]
          /\ registeredBy' =
                IF Len(sharedSvc'.images) > Len(sharedSvc.images)
                THEN Append(registeredBy, b)
                ELSE registeredBy
    /\ sharedCalls' = [sharedCalls EXCEPT ![b] = @ + 1]
    /\ UNCHANGED outsideShared

NextShared == \E b \in 1..MaxBuilds : SharedRegisterImage(b)

SpecShared == InitShared /\ [][NextShared]_vars

\* ------------------------------------------------------------------- claims

\* Number of occurrences of event e in the trace t.
RECURSIVE Count(_, _)
Count(t, e) ==
    IF t = <<>> THEN 0
    ELSE Count(Tail(t), e) + (IF Head(t) = e THEN 1 ELSE 0)

\* Positions of event e in the trace.
Positions(e) == {i \in 1..Len(trace) : trace[i] = e}

\* The build has ended by returning a rendered text to its caller.
Succeeded ==
    /\ pc = "done"
    /\ "returned" \in DOMAIN outcome
    /\ outcome.returned # Null

\* The positions of the entries of a registry whose input path is p.
EntriesFor(images, p) ==
    {i \in 1..Len(images) : images[i].inputPath = p}

\* The last registerImage call was made with an input registered before it.
ReRegistered ==
    /\ lastCall # Null
    /\ EntriesFor(lastCall.before, lastCall.input) # {}

\* The last registerImage call was made with an input not registered before.
NewlyRegistered ==
    /\ lastCall # Null
    /\ EntriesFor(lastCall.before, lastCall.input) = {}

\* C1: registerImage is idempotent per input path: every call returns the
\* reference the first call with that path returned, a call with a path
\* already registered adds no entry, and the registry holds exactly one
\* entry for each path registered and none for any other.
C1_IdempotentRegistration ==
    /\ lastCall # Null => lastCall.ret = firstRef[lastCall.input]
    /\ ReRegistered => svc.images = lastCall.before
    /\ svc # Null =>
         \A p \in InputPaths :
            Cardinality(EntriesFor(svc.images, p))
               = (IF p \in DOMAIN firstRef THEN 1 ELSE 0)

\* A second call with an input already in a registry of two entries.
C1_Witness ==
    /\ ReRegistered
    /\ Len(svc.images) = 2
    /\ lastCall.input = svc.images[1].inputPath

\* C2: no two entries of the registry have the same outputPath.
C2_DistinctOutputPaths ==
    svc # Null =>
       \A i, j \in 1..Len(svc.images) :
          i # j => svc.images[i].outputPath # svc.images[j].outputPath

\* Three registered inputs, two of them with the same file name.
C2_Witness ==
    /\ svc # Null
    /\ Len(svc.images) = 3
    /\ \E i, j \in 1..3 :
          /\ i # j
          /\ Basename(svc.images[i].inputPath) = Basename(svc.images[j].inputPath)

\* The file name the claim gives the N-th candidate: base_N+extension.
SuffixedName(p, n) ==
    LET ext == ExtName(p)
    IN  BasenameExt(p, ext) \o <<"_">> \o Decimal(n) \o ext

\* The output file names claimed by the entries of a registry.
ClaimedNames(images) ==
    {Basename(images[i].outputPath) : i \in 1..Len(images)}

\* C3: a newly registered input gets its own base name when no registered
\* resource has that output name, and otherwise base_N+extension for the
\* smallest N >= 1 whose name no registered resource has.
C3_SmallestFreeSuffix ==
    NewlyRegistered =>
       LET p       == lastCall.input
           claimed == ClaimedNames(lastCall.before)
           out     == Basename(svc.images[Len(svc.images)].outputPath)
       IN  /\ svc.images[Len(svc.images)].inputPath = p
           /\ IF Basename(p) \notin claimed
              THEN out = Basename(p)
              ELSE \E n \in 1..(Len(lastCall.before) + 1) :
                      /\ out = SuffixedName(p, n)
                      /\ out \notin claimed
                      /\ \A k \in 1..(n - 1) : SuffixedName(p, k) \in claimed

\* The third file named l.p is registered as l_2.p.
C3_Witness ==
    /\ NewlyRegistered
    /\ Len(svc.images) = 3
    /\ Basename(svc.images[1].outputPath) = <<"l", ".", "p">>
    /\ Basename(svc.images[2].outputPath) = <<"l", "_", "1", ".", "p">>
    /\ Basename(svc.images[3].outputPath) = <<"l", "_", "2", ".", "p">>

\* A copy was attempted for entry k of the registry.
CopyAttempted(k) ==
    \E i \in 1..Len(copies) : copies[i].image = svc.images[k]

\* C4: in afterBuild a copy failure for one registered resource does not
\* abort the copying of the others: once the build is over, a copy has been
\* attempted for every registered resource.
C4_FailureDoesNotAbortCopying ==
    (pc = "done" /\ copies # <<>>) =>
       \A k \in 1..Len(svc.images) : CopyAttempted(k)

\* C5: with existingServices supplied the build constructs no service and
\* runs no beforeBuild and no afterBuild, whether it succeeds or fails, and
\* the supplied map is the `services` of the render context.
C5_ExistingServicesSkipLifecycle ==
    existingServices # Null =>
       /\ Count(trace, "construct") = 0
       /\ Count(trace, "beforeBuild") = 0
       /\ Count(trace, "afterBuild") = 0
       /\ copies = <<>>
       /\ services \in {Null, existingServices}
       /\ ctx # Null => ctx.services = existingServices

\* A build with supplied services that rendered, registering images, and
\* returned its text.
C5_Witness ==
    /\ existingServices # Null
    /\ Succeeded
    /\ Len(svc.images) >= 1

\* C6: without existingServices, beforeBuild has run exactly once before the
\* template evaluation starts; afterBuild starts only once the render has
\* resolved, with no helper in flight, runs at most once, and no
\* registerImage call follows its start; a successful build has run each of
\* the two hooks exactly once.
C6_HooksAroundRender ==
    existingServices = Null =>
       /\ ctx # Null =>
            /\ Count(trace, "beforeBuild") = 1
            /\ \A b \in Positions("beforeBuild") :
                  \A r \in Positions("renderStart") : b < r
       /\ Count(trace, "afterBuild") <= 1
       /\ \A a \in Positions("afterBuild") :
            /\ \E r \in Positions("renderEnd") : r < a
            /\ \A g \in Positions("registerImage") : g < a
            /\ pending = 0 /\ ~evaluating
       /\ Succeeded =>
            /\ Count(trace, "beforeBuild") = 1
            /\ Count(trace, "afterBuild") = 1

\* A successful build whose last registerImage call came from an
\* asynchronous helper and whose afterBuild copied the image.
C6_Witness ==
    /\ existingServices = Null
    /\ Succeeded
    /\ lastCall # Null /\ lastCall.async
    /\ Len(copies) >= 1

\* C7: build never throws: it hands every exception of
\* buildWithNoErrorHandling to printException once and returns null, and
\* returns the rendered text when there is none; buildWithNoErrorHandling
\* itself lets every exception reach its caller, unprinted.
C7_BuildNeverThrows ==
    pc = "done" =>
       /\ entryPoint = "build" =>
            /\ "returned" \in DOMAIN outcome
            /\ err # Null =>
                 /\ outcome.returned = Null
                 /\ Len(printed) = 1
                 /\ printed[1].e = err
            /\ err = Null =>
                 /\ outcome.returned = generatedText
                 /\ generatedText \in Texts
                 /\ printed = <<>>
       /\ entryPoint = "buildWithNoErrorHandling" =>
            /\ printed = <<>>
            /\ err # Null => outcome = [thrown |-> err]
            /\ err = Null => outcome = [returned |-> generatedText]

\* build returned null after an afterBuild failure that followed a render
\* which had produced its text.
C7_Witness ==
    /\ pc = "done"
    /\ entryPoint = "build"
    /\ err # Null
    /\ generatedText # Null
    /\ outcome = [returned |-> Null]

\* C8: the RuntimeException raised by Service.error of an ImageService is
\* tagged with the service name "ImageService".
C8_ErrorTaggedWithServiceName ==
    (err # Null /\ copies # <<>> /\ ~copies[Len(copies)].ok) =>
       err.service = "ImageService"

\* C9: in the render context config, strings and services hold the build's
\* merged options, loaded strings and service map, whatever the sub-projects
\* are named.
C9_OwnEntriesNotShadowed ==
    ctx # Null =>
       /\ ctx.config = options
       /\ ctx.strings = strings
       /\ ctx.services = services

\* A render whose sub-projects are named config, strings and services.
C9_Witness ==
    /\ ctx # Null
    /\ {"config", "strings", "services"} \subseteq DOMAIN options.subProjects
    /\ DOMAIN subProjectsData = DOMAIN options.subProjects

\* Some sub-project's data provides x = 1.
SubProjectProvidesX ==
    \E n \in DOMAIN subProjectsData :
       /\ "x" \in DOMAIN subProjectsData[n]
       /\ subProjectsData[n].x = 1

\* C10: when sub-project data provides x = 1 and the config's data provides
\* x = 2, the name x resolves to 2 in the entry template.
C10_ConfigDataWins ==
    (ctx # Null /\ SubProjectProvidesX /\ options.data.x = 2) =>
       resolved = [value |-> 2]

\* A render with a sub-project whose data has x = 1.
C10_Witness ==
    /\ ctx # Null
    /\ SubProjectProvidesX
    /\ options.data.x = 2
    /\ resolved # Null

\* C11: overrides win in the merged configuration: it holds the override's
\* value for every key of overrideOptions and the value of options for
\* every other key; validation, the render context and a freshly constructed
\* service get that configuration; the caller's options object is unchanged.
C11_OverridesWin ==
    /\ optionsArg = givenOptions
    /\ options # Null =>
         /\ DOMAIN options = (DOMAIN givenOptions) \cup (DOMAIN overrideOptions)
         /\ \A k \in DOMAIN overrideOptions : options[k] = overrideOptions[k]
         /\ \A k \in (DOMAIN givenOptions) \ (DOMAIN overrideOptions) :
               options[k] = givenOptions[k]
    /\ ctx # Null => ctx.config = options
    /\ (svc # Null /\ existingServices = Null) => svc.options = options

\* A render in a build whose overrideOptions replaced pageName and data and
\* that constructed its service.
C11_Witness ==
    /\ ctx # Null
    /\ existingServices = Null
    /\ "pageName" \in DOMAIN overrideOptions
    /\ options.pageName = <<"q">>
    /\ options.wikiName = <<"w">>
    /\ svc.options.pageName = <<"q">>

\* ------------------------------------------------- configuration loading

\* The expressions of the path templates.
TemplateSyntax == {"{{x}}", "{{y}}", "{{@config.pageName}}"}

\* A path holds template syntax.
HasTemplateSyntax(path) == \E i \in 1..Len(path) : path[i] \in TemplateSyntax

\* The paths of the output of an options object.
OutputPaths(o) ==
    IF o = Null THEN {} ELSE {o.output[f] : f \in DOMAIN o.output}

\* The output paths the consumers have in hand: the merged options of
\* buildWithNoErrorHandling, the options of the ImageService, and the paths
\* createOutputDir and writeToOutputFile handed to the file system.
ConsumedPaths ==
    OutputPaths(options)
       \cup (IF svc = Null THEN {} ELSE OutputPaths(svc.options))
       \cup {fsLog[i].path : i \in 1..Len(fsLog)}

\* C12 as stated: no consumer (buildWithNoErrorHandling, createOutputDir,
\* writeToOutputFile, ImageService) ever sees template syntax in output,
\* for every configuration and every overrideOptions passed to build.
C12_NoConsumerSeesTemplateSyntax ==
    \A path \in ConsumedPaths : ~ HasTemplateSyntax(path)

\* C12: loadBuildConfig validates first and then replaces output.dir and
\* output.filename by their values interpolated from the config's data, so
\* that the configuration it returns holds no template syntax in output;
\* the consumers never interpolate: buildWithNoErrorHandling and a freshly
\* constructed ImageService hold the output of the merged options exactly as
\* the caller and overrideOptions gave it, and createOutputDir and
\* writeToOutputFile hand the file system the output of their options as it
\* stands.
C12_InterpolatedOnceAtLoad ==
    /\ (lastLoad # Null /\ lastLoad.result.ok) =>
          /\ \A path \in OutputPaths(lastLoad.result.value) :
                ~ HasTemplateSyntax(path)
          /\ lastLoad.configPath = "main" =>
                lastLoad.result.value.output =
                   [dir |-> <<"/", "2">>, filename |-> <<"p", ".", "5">>]
    /\ (lastLoad # Null /\ lastLoad.code = "ok"
           /\ "data" \notin DOMAIN ConfigModules[lastLoad.configPath]) =>
          /\ ~ lastLoad.result.ok
          /\ lastLoad.result.error.kind = "ValidationException"
    /\ options # Null =>
          options.output =
             IF "output" \in DOMAIN overrideOptions
             THEN overrideOptions.output ELSE givenOptions.output
    /\ (svc # Null /\ existingServices = Null) =>
          svc.options.output = options.output
    /\ \A i \in 1..Len(fsLog) :
          fsLog[i].path =
             IF fsLog[i].op = "mkdir" THEN givenOptions.output.dir
             ELSE givenOptions.output.dir \o <<"/">>
                     \o givenOptions.output.filename

\* The build-article run of the config main has written its output file.
C12_Witness ==
    /\ entryPoint = "main"
    /\ Len(fsLog) = 2
    /\ fsLog[1] = [op |-> "mkdir", path |-> <<"/", "2">>]
    /\ fsLog[2] = [op |-> "open", path |-> <<"/", "2", "/", "p", ".", "5">>]

\* The fields buildOptionsSpec requires.
RequiredFields ==
    {"wikiName", "pageName", "entry", "partialsDir", "stringsDir", "output",
     "locale", "components", "data"}

\* The required fields an object lacks, those of output included.
Missing(o) ==
    {<<k>> : k \in RequiredFields \ DOMAIN o}
       \cup (IF "output" \in DOMAIN o
             THEN {<<"output", f>> : f \in {"dir", "filename"} \ DOMAIN o.output}
             ELSE {})

C14_EveryImportFailureIsConfigLoadError ==
    (lastLoad # Null /\ lastLoad.code # "ok") =>
       /\ ~ lastLoad.result.ok
       /\ lastLoad.result.error.kind = "RuntimeException"
       /\ lastLoad.result.error.subject = lastLoad.configPath

\* C14: when the import fails loadBuildConfig never returns a configuration;
\* it throws a RuntimeException naming the config source when the module is
\* not found, and the import's own error for every other cause.
C14_ImportFailureNeverReturns ==
    (lastLoad # Null /\ lastLoad.code # "ok") =>
       /\ ~ lastLoad.result.ok
       /\ lastLoad.code = "ERR_MODULE_NOT_FOUND" =>
             /\ lastLoad.result.error.kind = "RuntimeException"
             /\ lastLoad.result.error.subject = lastLoad.configPath
       /\ lastLoad.code # "ERR_MODULE_NOT_FOUND" =>
             /\ lastLoad.result.error.kind = "Error"
             /\ lastLoad.result.error.subject = lastLoad.code
       /\ err = lastLoad.result.error

\* build-article has reported the syntax error of its config module.
C14_Witness ==
    /\ lastLoad # Null
    /\ lastLoad.by = "main"
    /\ lastLoad.code = "SyntaxError"
    /\ printed = <<[e |-> [kind |-> "Error", service |-> "",
                           subject |-> "SyntaxError"],
                    by |-> "printOtherExceptions"]>>

\* The load of a sub-project's configuration has failed.
SubProjectLoadFailed ==
    /\ lastLoad # Null
    /\ lastLoad.by # "main"
    /\ ~ lastLoad.result.ok

\* The steps after loadSubProjectsData have left no trace.
NothingAfterSubProjects ==
    /\ \A e \in {"subprojects", "strings", "entry", "services", "construct",
                  "compile", "beforeBuild", "renderStart", "renderEnd",
                  "afterBuild"} : Count(trace, e) = 0
    /\ strings = Null
    /\ services = Null
    /\ ctx = Null
    /\ generatedText = Null
    /\ copies = <<>>

\* C15: a failure while loading a sub-project's configuration is never
\* swallowed: it aborts the parent build before strings, entry, services,
\* hooks or rendering, and propagates as an error from which the failing
\* sub-project's config path is recoverable.
C15_SubProjectFailureNamesPath ==
    SubProjectLoadFailed =>
       /\ err = lastLoad.result.error
       /\ pc \in {"throw", "buildReturn", "done"}
       /\ NothingAfterSubProjects
       /\ (pc = "done" /\ entryPoint = "buildWithNoErrorHandling") =>
             outcome = [thrown |-> err]
       /\ err.subject = lastLoad.configPath

\* The data of the configuration a sub-project name refers to.
SubProjectData(name) == ConfigModules[options.subProjects[name]].data

\* The names under which the data frame holds the build's own entries.
OwnNames == {"config", "strings", "services"}

\* C16 as stated: for every entry name -> configPath of subProjects the
\* render context holds under that name exactly the data of the
\* configuration loaded from configPath.
C16_EveryNameHoldsItsData ==
    ctx # Null =>
       \A name \in DOMAIN options.subProjects :
          /\ name \in DOMAIN ctx
          /\ ctx[name] = SubProjectData(name)

\* C16: for every entry name -> configPath of subProjects whose name is not
\* config, strings or services, the render context holds under that name
\* exactly the data of the configuration loaded from configPath and nothing
\* else of it; the parent build constructs no service, runs no hook and
\* renders no template other than its own.
C16_NameHoldsOnlyData ==
    /\ ctx # Null =>
          /\ \A name \in (DOMAIN options.subProjects) \ OwnNames :
                /\ name \in DOMAIN ctx
                /\ ctx[name] = SubProjectData(name)
          /\ DOMAIN ctx = (DOMAIN options.subProjects) \cup OwnNames
    /\ \A e \in {"construct", "beforeBuild", "renderStart", "afterBuild"} :
          Count(trace, e) <= 1

\* A render whose context holds the data of the sub-projects sub and x.
C16_Witness ==
    /\ ctx # Null
    /\ DOMAIN options.subProjects = {"sub", "x"}
    /\ ctx.sub = [x |-> 1]
    /\ ctx.x = [y |-> 3]

\* --------------------------------------------------------------- references

\* The reference the claim gives for an output file name.
Reference(wikiName, pageName, outputFilename) ==
    <<"http://">> \o wikiName \o <<".wikidot.com/local--files/">>
       \o pageName \o <<"/">> \o outputFilename

\* C17: on first registration and on every re-registration registerImage
\* returns http://<wikiName>.wikidot.com/local--files/<pageName>/<name>,
\* where wikiName and pageName are those of the service's options and name
\* is the base name of the output path the registry holds for that input.
C17_ReferenceIsWikidotUrl ==
    lastCall # Null =>
       \E i \in EntriesFor(svc.images, lastCall.input) :
          lastCall.ret =
             Reference(svc.options.wikiName, svc.options.pageName,
                       Basename(svc.images[i].outputPath))

\* An input registered under a suffixed name is registered again.
C17_Witness ==
    /\ ReRegistered
    /\ lastCall.input = <<"/", "b", "/", "l", ".", "p">>
    /\ lastCall.ret = <<"http://", "w", ".wikidot.com/local--files/", "p",
                        "/", "l", "_", "1", ".", "p">>

\* -------------------------------------------------------------- step order

\* The steps of buildWithNoErrorHandling in the order the claim gives them;
\* the render and the after-hooks have a start and an end.
StepOrder ==
    <<"merge", "validate", "components", "partials", "subprojects", "strings",
      "entry", "services", "beforeBuild", "renderStart", "renderEnd",
      "afterBuild", "afterEnd">>

\* The hooks' steps, which a build with existingServices does not have.
HookSteps == {"beforeBuild", "afterBuild", "afterEnd"}

\* The steps a build is to perform.
ExpectedSteps ==
    IF existingServices = Null THEN StepOrder
    ELSE SelectSeq(StepOrder, LAMBDA e : e \notin HookSteps)

\* The steps performed so far.
StepsDone ==
    SelectSeq(trace, LAMBDA e : \E i \in 1..Len(StepOrder) : StepOrder[i] = e)

\* The validation of the merged options has failed.
ValidationFailed ==
    /\ err # Null
    /\ Count(trace, "merge") = 1
    /\ Count(trace, "validate") = 0

\* C20: the steps of buildWithNoErrorHandling are performed in the order
\* merge, validate, components, partials, sub-project data, strings, entry,
\* services, before-hooks, render, after-hooks, each after the previous one
\* completed; once a step has failed no later step is performed, and a
\* failed validation leaves no file read, no service constructed and no
\* hook run.
C20_StepsInOrder ==
    /\ [](/\ Len(StepsDone) <= Len(ExpectedSteps)
          /\ StepsDone = SubSeq(ExpectedSteps, 1, Len(StepsDone))
          /\ ValidationFailed =>
                /\ StepsDone = <<"merge">>
                /\ subProjectsData = Null /\ strings = Null
                /\ services = Null /\ ctx = Null
                /\ existingServices = Null => svc = Null
                /\ Count(trace, "construct") = 0
                /\ calls = 0 /\ copies = << >>)
    /\ [][err # Null =>
            /\ StepsDone' = StepsDone
            /\ << loadVars, services, ctx, generatedText, copyVars >>' =
                  << loadVars, services, ctx, generatedText, copyVars >>]_vars

\* build has reported the failed validation of options that lack a field,
\* and returned.
C20_Witness ==
    /\ ValidationFailed
    /\ entryPoint = "build"
    /\ pc = "done"
    /\ trace = <<"call", "merge">>
    /\ printed = <<[e |-> err, by |-> "printValidationException"]>>

\* ------------------------------------------------------ file-scoped frames

\* The absolute path of the file the entry content is read from.
EntryFile == <<"/", "w", "/", "e">>

\* The absolute paths of the files the partials are read from.
PartialFiles ==
    { <<"/", "w", "/", "d", "/", "a">>, <<"/", "w", "/", "d", "/", "b">> }

\* C18: for the entry and for every partial, the currentFilePath a helper
\* called inside that content's body sees is the absolute path of the file
\* the content was read from, whatever form entry and partialsDir have.
C18_FrameCarriesAbsolutePath ==
    seen # Null =>
       /\ seen.block.file \in {EntryFile} \cup PartialFiles
       /\ seen.depth = 1 <=> seen.block.file = EntryFile
       /\ seen.currentFilePath = seen.block.file

\* C19: inside a __file block a helper sees the path of the innermost
\* enclosing block, at any depth; each enclosing block keeps its own path
\* in its own frame while a nested block is evaluated and after it ended,
\* and the root frame never holds a path.
C19_FramesNest ==
    /\ Len(dataStack) = Len(blocks) + (IF heap = << >> THEN 0 ELSE 1)
    /\ \A i \in 1..Len(blocks) :
          heap[dataStack[i + 1]].currentFilePath = blocks[i].path
    /\ heap # << >> => heap[1].currentFilePath = << >>
    /\ \A i, j \in 1..Len(dataStack) : i # j => dataStack[i] # dataStack[j]
    /\ seen # Null => seen.currentFilePath = seen.block.path

\* Inside the block of partial a, nested in the entry, a helper runs after
\* the nested block of partial b has ended, and sees the path of a.
C19_Witness ==
    /\ seen # Null
    /\ seen.depth = 2
    /\ seen.after # Null
    /\ seen.after.path = partials[<<"b">>]
    /\ seen.block.path = partials[<<"a">>]
    /\ seen.currentFilePath = partials[<<"a">>]
    /\ lastLeft = seen.after
    /\ Len(blocks) = 2

\* ------------------------------------------------------- copying and registry

\* C24: when no copy fails, afterBuild copies every registered pair exactly
\* once, from its inputPath to its outputPath, in registration order, and
\* nothing else; with an empty registry it performs no copy.
C24_CopiesEveryPairOnce ==
    /\ (\A i \in 1..Len(copies) : copies[i].ok) =>
          /\ Len(copies) <= (IF svc = Null THEN 0 ELSE Len(svc.images))
          /\ \A i \in 1..Len(copies) :
                copies[i] = [image |-> svc.images[i], ok |-> TRUE]
    /\ Count(trace, "afterEnd") = 1 =>
          /\ Len(copies) = Len(svc.images)
          /\ \A i \in 1..Len(copies) : copies[i].ok

\* afterBuild has copied three registered pairs and resolved.
C24_Witness ==
    /\ Count(trace, "afterEnd") = 1
    /\ Len(svc.images) = 3
    /\ Len(copies) = 3

\* The registry, empty while there is no ImageService.
Registry == IF svc = Null THEN << >> ELSE svc.images

\* No step changes, removes or moves a registered pair: the registry only
\* grows by appending.
AppendOnly ==
    /\ Len(Registry') >= Len(Registry)
    /\ \A i \in 1..Len(Registry) : Registry'[i] = Registry[i]

\* C25 as stated: no registerImage call and no afterBuild changes, removes
\* or moves a registered pair, and the first registration of a base name
\* keeps the unsuffixed name.
C25_NeverMutatedFirstKeepsName ==
    /\ [][AppendOnly]_vars
    /\ [](\A i \in 1..Len(Registry) :
            (\A j \in 1..(i - 1) :
                Basename(Registry[j].inputPath) # Basename(Registry[i].inputPath))
               => Basename(Registry[i].outputPath)
                     = Basename(Registry[i].inputPath))

\* C25: no registerImage call and no afterBuild changes, removes or moves
\* a registered pair; the registry only grows by appending, and an input
\* whose file name no registered pair has as its output name at the time
\* keeps its unsuffixed name.
C25_NeverMutated ==
    /\ [][AppendOnly]_vars
    /\ [](\A i \in 1..Len(Registry) :
            (\A j \in 1..(i - 1) :
                Basename(Registry[j].outputPath) # Basename(Registry[i].inputPath))
               => Basename(Registry[i].outputPath)
                     = Basename(Registry[i].inputPath))

\* A third registerImage call has appended a pair behind the two pairs the
\* registry held, which are as they were.
C25_Witness ==
    /\ Len(Registry) = 3
    /\ lastCall # Null
    /\ Len(lastCall.before) = 2
    /\ Registry[1] = lastCall.before[1]
    /\ Registry[2] = lastCall.before[2]
    /\ Basename(Registry[1].outputPath) = Basename(Registry[1].inputPath)

\* The render of a build that constructed its own services has failed.
OwnRenderFailed ==
    /\ existingServices = Null
    /\ err # Null
    /\ Count(trace, "renderStart") = 1
    /\ Count(trace, "renderEnd") = 0

\* C26: when the render of a build that constructed its own services fails,
\* afterBuild is never invoked although beforeBuild has run, and no image
\* registered during the render is copied.
C26_FailedRenderSkipsAfterBuild ==
    OwnRenderFailed =>
       /\ Count(trace, "beforeBuild") = 1
       /\ Count(trace, "afterBuild") = 0
       /\ copies = << >>
       /\ pc \in {"throw", "buildReturn", "done"}

\* The caller got the error of a failed render during which two images
\* were registered.
C26_Witness ==
    /\ OwnRenderFailed
    /\ pc = "done"
    /\ Len(svc.images) = 2
    /\ copies = << >>

\* ------------------------------------------------------------ build-article

\* The calls of writeToOutputFile and of createOutputDir.
Writes == {i \in 1..Len(fsLog) : fsLog[i].op = "open"}
Mkdirs == {i \in 1..Len(fsLog) : fsLog[i].op = "mkdir"}

\* build has returned a text that is not empty.
BuildGaveText ==
    /\ "returned" \in DOMAIN outcome
    /\ outcome.returned # Null
    /\ outcome.returned.text # ""

\* C28: in build-article writeToOutputFile is called if and only if
\* loadBuildConfig, createOutputDir and build completed and build returned
\* a text that is not empty; the output directory is created before the
\* build starts.
C28_WritesOnlyNonEmptyText ==
    entryPoint = "main" =>
       /\ Cardinality(Writes) <= 1 /\ Cardinality(Mkdirs) <= 1
       /\ Writes # {} =>
             /\ lastLoad # Null /\ lastLoad.result.ok
             /\ Mkdirs = {1} /\ Writes = {2}
             /\ BuildGaveText
       /\ (pc = "done" /\ outcome # Null /\ BuildGaveText) => Writes # {}
       /\ trace # << >> => Mkdirs = {1}
       /\ (outcome # Null /\ ~ BuildGaveText) => Writes = {}

\* build-article has ended after a render that produced the empty text:
\* the directory was created and no file written.
C28_Witness ==
    /\ entryPoint = "main"
    /\ pc = "done"
    /\ outcome = [returned |-> [text |-> ""]]
    /\ Len(fsLog) = 1
    /\ fsLog[1].op = "mkdir"

\* ------------------------------------------------------------ service hooks

\* The hooks of one phase, one per service, in the order of the services
\* object.
HookCalls(hook) ==
    [i \in 1..Len(hookServices) |-> [key |-> hookServices[i], hook |-> hook]]

IsPrefix(a, b) ==
    /\ Len(a) <= Len(b)
    /\ \A i \in 1..Len(a) : a[i] = b[i]

\* C21: hooks are called one at a time in the order of the services object;
\* when a hook fails no later hook of the phase is started, the side effects
\* of the hooks that completed before it stay in place, the caller of
\* buildWithNoErrorHandling receives the hook's error, and a failing
\* beforeBuild leaves the template unrendered and every afterBuild uncalled.
C21_HookFailureAbortsPhase ==
    /\ IsPrefix(started, HookCalls("beforeBuild") \o HookCalls("afterBuild"))
    /\ running # Null =>
          /\ started[Len(started)] = running
          /\ effects = SubSeq(started, 1, Len(started) - 1)
    /\ (hookErr # Null /\ hookErr.by # Null) =>
          /\ running = Null
          /\ started[Len(started)] = hookErr.by
          /\ effects = SubSeq(started, 1, Len(started) - 1)
          /\ hookPc \in {"throw", "done"}
          /\ hookPc = "done" => hookOut = [thrown |-> hookErr.thrown]
          /\ hookErr.by.hook = "beforeBuild" =>
                /\ hookText = Null
                /\ \A i \in 1..Len(started) : started[i].hook = "beforeBuild"

\* C21 happens: the second of three beforeBuild hooks failed after the first
\* had completed, and the caller has the error.
C21_Witness ==
    /\ hookPc = "done"
    /\ Len(hookServices) = 3
    /\ hookErr # Null
    /\ hookErr.by = [key |-> hookServices[2], hook |-> "beforeBuild"]
    /\ effects = << [key |-> hookServices[1], hook |-> "beforeBuild"] >>
    /\ hookOut = [thrown |-> hookErr.thrown]

\* ---------------------------------------------------------- content loading

\* The filesystem steps of content loading.
ContentSteps ==
    {"open partials directory", "open partial file", "read partial file",
     "close partial file", "open the entry file", "read the entry file",
     "close the entry file"}

\* C22: a failed step of content loading is the last filesystem operation
\* of the build (nothing is retried, nothing follows), and the error in
\* flight is a RuntimeException naming that step's operation and path.
C22_EveryFailedStepIsNamed ==
    \A i \in 1..Len(fsCalls) :
        (fsCalls[i].operation \in ContentSteps /\ ~fsCalls[i].ok) =>
            /\ i = Len(fsCalls)
            /\ loadErr = RuntimeException(fsCalls[i].operation,
                                          fsCalls[i].path)
            /\ \A j \in 1..(i - 1) :
                  ~(/\ fsCalls[j].operation = fsCalls[i].operation
                    /\ fsCalls[j].path = fsCalls[i].path)

\* -------------------------------------------------------- localized strings

\* C23: the strings file a launch requires is <stringsDir>/<locale>.json
\* taken from the directory of the config file, whatever the working
\* directory, so two launches of one configuration require the same file.
C23_StringsRelativeToConfig ==
    /\ \A i \in 1..Len(launched) :
          launched[i].required =
             PathResolve(Dirname(stringsConfig.configFilePath),
                         stringsConfig.stringsDir,
                         << stringsConfig.locale \o ".json" >>)
    /\ \A i, j \in 1..Len(launched) :
          launched[i].required = launched[j].required

\* ------------------------------------------------- a shared ImageService

\* The registry has one entry per inputPath and no outputPath twice.
SharedRegistryUnique ==
    \A i, j \in 1..Len(sharedSvc.images) :
        i # j => /\ sharedSvc.images[i].inputPath # sharedSvc.images[j].inputPath
                 /\ sharedSvc.images[i].outputPath # sharedSvc.images[j].outputPath

\* C27: whatever the interleaving of the registerImage calls of the builds
\* sharing one ImageService, every step is one whole call on the registry
\* the previous call left, and after every call the registry has at most
\* one entry per inputPath and pairwise distinct outputPaths.
C27_SharedRegistryStaysUnique ==
    /\ [](sharedSvc # Null => SharedRegistryUnique)
    /\ [][sharedSvc # Null =>
             \E inputPath \in SharedInputs :
                sharedSvc'.images = RegisterImages(sharedSvc, inputPath)]_vars

\* C27 happens: the registry holds entries of two builds in alternation, and
\* the second build also called with a path that was already registered.
C27_Witness ==
    /\ sharedSvc # Null
    /\ registeredBy = << 1, 2, 1 >>
    /\ sharedCalls[2] = 2
    /\ SharedRegistryUnique

====
